---- MODULE Spec2Model ----
(***************************************************************************)
(* MicroBlocks adapter: the serial framing protocol, the typed value codec *)
(* and the property synchronisation of src/unnamed/part_000 (the adapter   *)
(* with the value comparison in processVariableValue) and of the fourth    *)
(* snapshot in src/microblocks-adapter.js, lines 764-1372 (the adapter     *)
(* with the requestingChange flag).  Definitions that model the second     *)
(* carry the suffix MA.                                                    *)
(*                                                                         *)
(* Bytes are the integers 0..255.  A JavaScript array of bytes is a        *)
(* sequence; JavaScript indices are 0-based, sequences are 1-based.        *)
(***************************************************************************)
EXTENDS Integers, Sequences, FiniteSets, TLC

VARIABLES
    \* ---- codec specification: one application of the pack / decode functions
    stage,        \* "init" | "setvar" | "broadcast" | "probe" | "inbound"
    arg,          \* the inputs drawn in Init: [id, val, type]
    frame,        \* the byte array packed or received
    isDecoded,    \* getPayload / getPayloadType have been applied to frame
    decoded,      \* the result of getPayload
    decodedType,  \* the result of getPayloadType
    \* ---- the byte stream of the link
    variant,      \* "p0": src/unnamed/part_000, "ma": microblocks-adapter.js:764
    frames,       \* what the board sends: a sequence of byte arrays
    fed,          \* how many of their bytes the data handler has received
    lastEmpty,    \* the last data event carried an empty chunk
    pc,           \* "idle", or "run" inside a processData call taken by steps
    depth,        \* processData invocations of the current data event
    board,        \* the board: its variable, and what it has read of out
    \* ---- the link session and the adapter
    open,         \* the serial port: "new", "open" or "closed"
    buffer,       \* serialPort.buffer
    timeout,      \* serialPort.discoveryTimeout is pending
    devices,      \* adapter.devices, in insertion order
    out,          \* byte arrays written to the serial port
    notified,     \* notifications sent to the gateway (the host)
    log,          \* complete long frames processData has found, in order
    extracted,    \* frames processData has sliced off the buffer
    threw,        \* the last data event ended with an exception
    \* ---- the adapter with several serial ports
    links,        \* the serial ports of the several-port specification
    radioPackets  \* adapter.radioPackets: the radio strings being assembled

codecVars == <<stage, arg, frame, isDecoded, decoded, decodedType>>

streamVars == <<variant, frames, fed, lastEmpty, pc, depth, board>>

sessionVars ==
    <<open, buffer, timeout, devices, out, notified, log, extracted, threw>>

linkVars == <<links, radioPackets>>

vars == <<codecVars, streamVars, sessionVars, linkVars>>

----------------------------------------------------------------------------
(* Bounds of the model *)

MaxStrLen == 2
MaxFrames == 2
MaxLog == 4
MaxStepBytes == 6
MaxOut == 8
MaxChanges == 1
MaxTicks == 2

(* Protocol bytes of the program *)

LongMarker == 251
ShortMarker == 250
Terminator == 254
OpVarName == 29
OpVarValue == 21
OpBroadcast == 27
OpOutputValue == 20
OpGetVarValue == 7
OpSetVar == 8
OpGetVarNames == 9
OpStartAll == 5
DescriptionID == 255

----------------------------------------------------------------------------
(* JavaScript values.  A value is a record [t, v]: v is always a sequence  *)
(* of integers so that values of different kinds can be compared.          *)

JSInt(n) == [t |-> "int", v |-> <<n>>]
JSStr(s) == [t |-> "str", v |-> s]
JSBool(b) == [t |-> "bool", v |-> <<IF b THEN 1 ELSE 0>>]
JSUndefined == [t |-> "undef", v |-> <<>>]
JSNull == [t |-> "null", v |-> <<>>]

\* x is truthy in a JavaScript condition
Truthy(x) ==
    CASE x.t = "int" -> x.v[1] # 0
      [] x.t = "bool" -> x.v[1] = 1
      [] x.t = "str" -> x.v # <<>>
      [] OTHER -> FALSE

\* ToInt32 of Math.floor(x): NaN (a string, undefined) becomes 0 under & and >>
FloorInt(x) ==
    CASE x.t = "int" -> x.v[1]
      [] x.t = "bool" -> x.v[1]
      [] OTHER -> 0

(* Array reads.  An index past the end reads undefined, written Undef.     *)
Undef == 0 - 1

At(buf, i) == IF i + 1 <= Len(buf) THEN buf[i + 1] ELSE Undef

\* undefined in a bitwise expression is 0
Bits(x) == IF x = Undef THEN 0 ELSE x

\* Array.prototype.slice(from, to) and slice(from)
Slice(buf, from, to) ==
    SubSeq(buf, from + 1, IF to < Len(buf) THEN to ELSE Len(buf))

SliceFrom(buf, from) == SubSeq(buf, from + 1, Len(buf))

\* Array.prototype.indexOf: the 0-based index of the first b, or -1
IndexOf(buf, b) ==
    IF \E i \in 1..Len(buf) : buf[i] = b
    THEN (CHOOSE i \in 1..Len(buf) :
              buf[i] = b /\ \A j \in 1..(i - 1) : buf[j] # b) - 1
    ELSE -1

RECURSIVE SeqsUpTo(_, _)
SeqsUpTo(S, n) ==
    IF n = 0
    THEN {<<>>}
    ELSE LET shorter == SeqsUpTo(S, n - 1)
         IN  shorter \cup {Append(s, x) : s \in shorter, x \in S}

\* the variable ID the board gives to the variable "l"
VarID == 2

\* the board before it has read anything: the values and the IDs of its
\* variables, what it has read of out, whether it pads names with NUL
BoardIdle ==
    [value |-> <<0>>, read |-> 0, changes |-> 0, ids |-> <<VarID>>,
     padded |-> FALSE]

\* what a function that throws, or a write that never happens, leaves
NoFrame == <<Undef>>

----------------------------------------------------------------------------
(* The value codec (src/unnamed/part_000) *)

packString(string) == string

packValue(value, type) ==
    CASE type = 1 ->
            LET level == FloorInt(value)
            IN  <<1,
                  level % 256,
                  (level \div 256) % 256,
                  (level \div 65536) % 256,
                  (level \div 16777216) % 256>>
      [] type = 2 ->
            IF value.t = "str" THEN <<2>> \o packString(value.v) ELSE NoFrame
      [] type = 3 -> <<3, IF Truthy(value) THEN 1 ELSE 0>>
      [] OTHER -> NoFrame

packSetVariableMessage(varID, value, type) ==
    LET packed == packValue(value, type)
        data == packed \o <<Terminator>>
    IN  IF packed = NoFrame
        THEN NoFrame
        ELSE <<LongMarker, OpSetVar, varID>>
                 \o <<Len(data) % 256, (Len(data) \div 256) % 256>>
                 \o data

packBroadcastMessage(contents) ==
    LET packed == packValue(contents, 2)
        data == packed \o <<Terminator>>
    IN  IF packed = NoFrame
        THEN NoFrame
        ELSE <<LongMarker, OpBroadcast>>
                 \o <<Len(data) % 256, (Len(data) \div 256) % 256>>
                 \o data

\* '_thing description'
ThingDescriptionName ==
    <<95, 116, 104, 105, 110, 103, 32,
      100, 101, 115, 99, 114, 105, 112, 116, 105, 111, 110>>

\* the long message the open handler writes after startAll
probeMessage ==
    LET data == packString(ThingDescriptionName) \o <<Terminator>>
    IN  <<LongMarker, OpGetVarValue, DescriptionID>>
            \o <<Len(data) % 256, (Len(data) \div 256) % 256>>
            \o data

\* mutant: the tag test written < 3
getPayloadType_lt3(buf) ==
    IF At(buf, 5) # Undef /\ At(buf, 5) < 3
    THEN At(buf, 5)
    ELSE -1

getPayloadType(buf) ==
    IF At(buf, 5) # Undef /\ At(buf, 5) <= 3
    THEN At(buf, 5)
    ELSE -1

\* (b9 << 24) | (b8 << 16) | (b7 << 8) | b6 as a signed 32-bit integer
Int32LE(b6, b7, b8, b9) ==
    (IF b9 >= 128 THEN b9 - 256 ELSE b9) * 16777216
        + b8 * 65536 + b7 * 256 + b6

\* uprotocol.js: Protocol.prototype.processReturnValue on the bytes of a value
\* (an array compared with == 1 is converted to a number through its text)
processReturnValue(rawData) ==
    LET type == At(rawData, 0)
    IN  CASE type = 1 ->
                JSInt(Int32LE(Bits(At(rawData, 1)), Bits(At(rawData, 2)),
                              Bits(At(rawData, 3)), Bits(At(rawData, 4))))
          [] type = 2 -> JSStr(SliceFrom(rawData, 1))
          [] type = 3 -> JSBool(Len(rawData) = 2 /\ rawData[2] = 1)
          [] OTHER -> JSUndefined

getPayload(buf, dataSize) ==
    LET typeByte == getPayloadType(buf)
    IN  CASE typeByte = -1 -> JSStr(Slice(buf, 5, 5 + dataSize))
          [] typeByte = 1 ->
                JSInt(Int32LE(Bits(At(buf, 6)), Bits(At(buf, 7)),
                              Bits(At(buf, 8)), Bits(At(buf, 9))))
          [] typeByte = 2 -> JSStr(Slice(buf, 6, 5 + dataSize))
          [] typeByte = 3 -> JSBool(At(buf, 6) = 1)
          [] OTHER -> JSUndefined

\* serialPort.buffer[3] | serialPort.buffer[4] << 8
dataSizeOf(buf) == Bits(At(buf, 3)) + 256 * Bits(At(buf, 4))


----------------------------------------------------------------------------
(* The link session and the adapter.  One serial port is modelled; a       *)
(* session is the record of what a data event reads and writes.            *)

Null == 0 - 2

ThisPort == 1

\* JSON.parse and the description texts the board of this model sends:
\* {"title":"T","properties":{"l":{}}}
DescriptionText ==
    <<123, 34, 116, 105, 116, 108, 101, 34, 58, 34, 84, 34, 44, 34, 112, 114,
      111, 112, 101, 114, 116, 105, 101, 115, 34, 58, 123, 34, 108, 34, 58,
      123, 125, 125, 125>>

\* {"title":"T","properties":{"l":{},"m":{}}}
DescriptionText2 ==
    SubSeq(DescriptionText, 1, 33) \o <<44, 34, 109, 34, 58, 123, 125, 125, 125>>

\* {"title":"T","properties":{}}
DescriptionText0 == SubSeq(DescriptionText, 1, 27) \o <<125, 125>>

\* {"title":"U","properties":{"l":{}}}
DescriptionTextU == [DescriptionText EXCEPT ![11] = 85]

\* { "title": "R","properties":{"l":{}}}, the description of a radio thing
RadioDescription ==
    <<123, 32, 34, 116, 105, 116, 108, 101, 34, 58, 32, 34, 82, 34, 44, 34, 112, 114, 111, 112, 101, 114, 116, 105, 101, 115,
      34, 58, 123, 34, 108, 34, 58, 123, 125, 125, 125>>

\* {"title":"E","properties":{"l":{}},"events":{"a":{}}}
DescriptionTextE ==
    <<123, 34, 116, 105, 116, 108, 101, 34, 58, 34, 69, 34, 44, 34,
      112, 114, 111, 112, 101, 114, 116, 105, 101, 115, 34, 58, 123, 34,
      108, 34, 58, 123, 125, 125, 44, 34, 101, 118, 101, 110, 116, 115,
      34, 58, 123, 34, 97, 34, 58, 123, 125, 125, 125>>

\* the result of JSON.parse on the texts of this model; every other text
\* of the model is no JSON text, or no object with a title
JSONparse(text) ==
    LET thing(title, names) ==
            [ok |-> TRUE, title |-> title,
             properties |-> [i \in 1..Len(names) |->
                                [name |-> names[i], value |-> JSUndefined]],
             events |-> {}]
    IN  CASE text = DescriptionText0 -> thing(<<84>>, <<>>)
          [] text = DescriptionText -> thing(<<84>>, <<<<108>>>>)
          [] text = DescriptionText2 -> thing(<<84>>, <<<<108>>, <<109>>>>)
          [] text = DescriptionTextU -> thing(<<85>>, <<<<108>>>>)
          [] text = RadioDescription -> thing(<<82>>, <<<<108>>>>)
          [] text = DescriptionTextE ->
                [thing(<<69>>, <<<<108>>>>) EXCEPT !.events = {<<97>>}]
          [] OTHER -> [ok |-> FALSE, title |-> <<>>, properties |-> <<>>,
                       events |-> {}]

\* mutant: '}}' is put behind the comma
RepairDescription_append(text) ==
    IF text # <<>> /\ text[Len(text)] \in {44, 123}
    THEN text \o <<125, 125>>
    ELSE text

\* description.endsWith(',') / endsWith('{') and the repair
RepairDescription(text) ==
    IF text # <<>> /\ text[Len(text)] = 44
    THEN SubSeq(text, 1, Len(text) - 1) \o <<125, 125>>
    ELSE IF text # <<>> /\ text[Len(text)] = 123
         THEN text \o <<125, 125>>
         ELSE text

\* new MicroBlocksProperty(device, description)
NewProperty(name, value) ==
    [name |-> name, varID |-> Null, varType |-> Null, value |-> value,
     requestingChange |-> FALSE, poller |-> TRUE, echoTimer |-> FALSE,
     ticks |-> 0]

PropertyNote(name, value) == [k |-> "property", n |-> name, v |-> value]

AddedNote(id) == [k |-> "added", n |-> id, v |-> JSUndefined]

EventNote(name) == [k |-> "event", n |-> name, v |-> JSUndefined]

\* new MicroBlocksDevice(adapter, description, serialPort): its properties,
\* each one notifying the host from its constructor
NewDevice(description, serialPort, radioDeviceID) ==
    [id |-> description.title,
     port |-> serialPort,
     radio |-> radioDeviceID,
     props |-> [i \in 1..Len(description.properties) |->
                   NewProperty(description.properties[i].name,
                               description.properties[i].value)],
     events |-> description.events]

ConstructorNotes(description) ==
    [i \in 1..Len(description.properties) |->
        PropertyNote(description.properties[i].name,
                     description.properties[i].value)]

\* deviceAtPort(serialPort, radioDeviceID): the index in devices of the first
\* device of that port and, in part_000, of that radio ID; 0 when there is
\* none.  A device attached directly has the radio ID undefined.
deviceAtPortOf(v, devs, serialPort, radioDeviceID) ==
    LET found(d) == /\ devs[d].port = serialPort
                    /\ (v = "p0") => (devs[d].radio = radioDeviceID)
    IN  IF \E d \in 1..Len(devs) : found(d)
        THEN CHOOSE d \in 1..Len(devs) :
                 found(d) /\ \A e \in 1..(d - 1) : ~found(e)
        ELSE 0

\* deviceAtPort(serialPort) for the serial port of the one-port
\* specifications
deviceAtPort(devs) == deviceAtPortOf("p0", devs, ThisPort, JSUndefined)

\* mutant: a variable ID that no property has selects the first property
findPropertyByID_first(props, varID) ==
    IF \E i \in 1..Len(props) : props[i].varID = varID
    THEN CHOOSE i \in 1..Len(props) :
             /\ props[i].varID = varID
             /\ \A j \in 1..(i - 1) : props[j].varID # varID
    ELSE IF props = <<>> THEN 0 ELSE 1

\* the index of the first property whose variable ID is varID, 0 when none
findPropertyByID(props, varID) ==
    IF \E i \in 1..Len(props) : props[i].varID = varID
    THEN CHOOSE i \in 1..Len(props) :
             /\ props[i].varID = varID
             /\ \A j \in 1..(i - 1) : props[j].varID # varID
    ELSE 0

\* device.properties.get(varName): the index of the property of that name
PropertyNamed(props, varName) ==
    IF varName.t = "str" /\ \E i \in 1..Len(props) : props[i].name = varName.v
    THEN CHOOSE i \in 1..Len(props) : props[i].name = varName.v
    ELSE 0

discoveredDevice(s) == [s EXCEPT !.timeout = FALSE]

GetVarNamesMessage == <<ShortMarker, OpGetVarNames, 0>>

\* 'moz-get-vars'
MozGetVars == <<109, 111, 122, 45, 103, 101, 116, 45, 118, 97, 114, 115>>

\* mutant: a device is known only when it is registered at this port
RegisterDevice_perPort(s, description, radioDeviceID) ==
    IF \E d \in 1..Len(s.devices) :
          s.devices[d].id = description.title /\ s.devices[d].port = s.port
    THEN s
    ELSE [s EXCEPT
            !.devices = Append(@, NewDevice(description, s.port,
                                            radioDeviceID)),
            !.notified = (@ \o ConstructorNotes(description))
                             \o <<AddedNote(description.title)>>,
            !.out = Append(@, IF Truthy(radioDeviceID)
                              THEN packBroadcastMessage(
                                       JSStr(MozGetVars \o radioDeviceID.v))
                              ELSE GetVarNamesMessage)]

\* the body of addDevice once the title is hashed
RegisterDevice(s, description, radioDeviceID) ==
    IF \E d \in 1..Len(s.devices) : s.devices[d].id = description.title
    THEN s
    ELSE [s EXCEPT
            !.devices = Append(@, NewDevice(description, s.port,
                                            radioDeviceID)),
            !.notified = (@ \o ConstructorNotes(description))
                             \o <<AddedNote(description.title)>>,
            !.out = Append(@, IF Truthy(radioDeviceID)
                              THEN packBroadcastMessage(
                                       JSStr(MozGetVars \o radioDeviceID.v))
                              ELSE GetVarNamesMessage)]

\* part_000: discoveredDevice first; a description that is no object with a
\* title and properties throws, which the caller catches
addDevice(s, description, radioDeviceID) ==
    LET found == discoveredDevice(s)
    IN  IF description.ok
        THEN RegisterDevice(found, description, radioDeviceID)
        ELSE found

\* microblocks-adapter.js:906
addDeviceMA(s, description) ==
    IF description.ok THEN RegisterDevice(s, description, JSUndefined) ELSE s

\* the objectID 0xFF branch: the thing description, inside try / catch
\* (a payload that is no string has no endsWith: the catch takes it)
ProcessDescription(s, varValue, isMA) ==
    IF varValue.t # "str"
    THEN s
    ELSE LET text == RepairDescription(varValue.v)
             description == JSONparse(text)
         IN  IF ~description.ok
             THEN s
             ELSE IF isMA
                  THEN addDeviceMA(s, description)
                  ELSE addDevice(s, description, JSUndefined)

processVariableValue(s, objectID, varValue, varType) ==
    IF objectID = DescriptionID
    THEN ProcessDescription(s, varValue, FALSE)
    ELSE LET d == deviceAtPortOf("p0", s.devices, s.port, JSUndefined)
             i == IF d = 0 THEN 0
                  ELSE findPropertyByID(s.devices[d].props, objectID)
         IN  IF d = 0 \/ i = 0
             THEN s
             ELSE LET property == s.devices[d].props[i]
                      \* !property.varType: null and 0 are falsy
                      typed == IF property.varType \in {Null, 0}
                               THEN [s EXCEPT
                                       !.devices[d].props[i].varType = varType]
                               ELSE s
                  IN  IF property.value # varValue
                      THEN [typed EXCEPT
                              !.devices[d].props[i].value = varValue,
                              !.notified =
                                  Append(@, PropertyNote(property.name,
                                                         varValue))]
                      ELSE typed

\* mutant: the frame that clears the flag is applied as well
processVariableValueMA_apply(s, objectId, varValue, varType) ==
    IF objectId = DescriptionID
    THEN ProcessDescription(s, varValue, TRUE)
    ELSE LET d == deviceAtPortOf("ma", s.devices, s.port, JSUndefined)
             i == IF d = 0 THEN 0
                  ELSE findPropertyByID(s.devices[d].props, objectId)
         IN  IF d = 0 \/ i = 0
             THEN s
             ELSE LET property == s.devices[d].props[i]
                      typed == [s EXCEPT
                                  !.devices[d].props[i].varType = varType]
                  IN  IF ~property.requestingChange
                      THEN \* property.setValue(varValue, true)
                           [typed EXCEPT
                              !.devices[d].props[i].value = varValue,
                              !.notified =
                                  Append(@, PropertyNote(property.name,
                                                         varValue))]
                      ELSE [typed EXCEPT
                              !.devices[d].props[i].requestingChange = FALSE,
                              !.devices[d].props[i].value = varValue,
                              !.notified =
                                  Append(@, PropertyNote(property.name,
                                                         varValue))]

processVariableValueMA(s, objectId, varValue, varType) ==
    IF objectId = DescriptionID
    THEN ProcessDescription(s, varValue, TRUE)
    ELSE LET d == deviceAtPortOf("ma", s.devices, s.port, JSUndefined)
             i == IF d = 0 THEN 0
                  ELSE findPropertyByID(s.devices[d].props, objectId)
         IN  IF d = 0 \/ i = 0
             THEN s
             ELSE LET property == s.devices[d].props[i]
                      typed == [s EXCEPT
                                  !.devices[d].props[i].varType = varType]
                  IN  IF ~property.requestingChange
                      THEN \* property.setValue(varValue, true)
                           [typed EXCEPT
                              !.devices[d].props[i].value = varValue,
                              !.notified =
                                  Append(@, PropertyNote(property.name,
                                                         varValue))]
                      ELSE [typed EXCEPT
                              !.devices[d].props[i].requestingChange = FALSE]

\* mutant: the variable ID is stored and no value is asked for
processVariableName_noRequest(s, objectID, varName) ==
    LET d == deviceAtPortOf("p0", s.devices, s.port, JSUndefined)
        i == IF d = 0 THEN 0 ELSE PropertyNamed(s.devices[d].props, varName)
    IN  IF d = 0 \/ i = 0
        THEN s
        ELSE [s EXCEPT !.devices[d].props[i].varID = objectID]

\* the same in both files
processVariableName(s, objectID, varName) ==
    LET d == deviceAtPortOf("p0", s.devices, s.port, JSUndefined)
        i == IF d = 0 THEN 0 ELSE PropertyNamed(s.devices[d].props, varName)
    IN  IF d = 0 \/ i = 0
        THEN s
        ELSE [s EXCEPT
                !.devices[d].props[i].varID = objectID,
                !.out = Append(@, <<ShortMarker, OpGetVarValue, objectID>>)]

\* 'moz-packet'
MozPacket == <<109, 111, 122, 45, 112, 97, 99, 107, 101, 116>>

StartsWith(text, prefix) ==
    Len(text) >= Len(prefix) /\ SubSeq(text, 1, Len(prefix)) = prefix

\* String.prototype.split for a separator of one character
RECURSIVE Split(_, _)
Split(text, c) ==
    LET k == IndexOf(text, c)
    IN  IF k = -1
        THEN <<text>>
        ELSE <<Slice(text, 0, k)>> \o Split(SliceFrom(text, k + 1), c)

RECURSIVE DigitsValue(_, _)
DigitsValue(text, acc) ==
    IF text = <<>> \/ Head(text) \notin 48..57
    THEN acc
    ELSE DigitsValue(Tail(text), 10 * acc + Head(text) - 48)

\* parseInt of a text without blanks or sign: the number its leading digits
\* write; NaN, written Undef, when it begins with none
parseInt(text) ==
    IF text = <<>> \/ text[1] \notin 48..57 THEN Undef ELSE DigitsValue(text, 0)

\* the character code String.fromCharCode makes of a text: NaN gives 0
ToCharCode(text) ==
    IF text # <<>> /\ \A i \in 1..Len(text) : text[i] \in 48..57
    THEN DigitsValue(text, 0) % 65536
    ELSE 0

\* '' + n for a number n >= 0
RECURSIVE ToDecimal(_)
ToDecimal(n) ==
    IF n < 10 THEN <<48 + n>> ELSE ToDecimal(n \div 10) \o <<48 + (n % 10)>>

\* message.substring(10).split(':')[0]
getRadioDeviceID(message) == Split(SliceFrom(message, 10), 58)[1]

\* message.substring(11 + radioDeviceID.length)
RadioText(message) == SliceFrom(message, 11 + Len(getRadioDeviceID(message)))

\* replace(/,0/g, '')
RECURSIVE DropCommaZero(_)
DropCommaZero(text) ==
    IF Len(text) < 2 THEN text
    ELSE IF text[1] = 44 /\ text[2] = 48
         THEN DropCommaZero(SubSeq(text, 3, Len(text)))
         ELSE <<text[1]>> \o DropCommaZero(Tail(text))

extractRadioString(message) ==
    LET parts == SliceFrom(Split(DropCommaZero(RadioText(message)), 44), 4)
    IN  [i \in 1..Len(parts) |-> ToCharCode(parts[i])]

\* the byte array processBroadcast hands to processRadioPacket
RadioBytes(message) ==
    LET parts == Split(RadioText(message), 44)
    IN  [i \in 1..Len(parts) |-> parseInt(parts[i])]

\* an index of an array that was never assigned
Hole == 0 - 3

\* '{ "title": "'
TitlePrefix == <<123, 32, 34, 116, 105, 116, 108, 101, 34, 58, 32, 34>>

\* 'moz-resend'
MozResend == <<109, 111, 122, 45, 114, 101, 115, 101, 110, 100>>

\* reduce((acc, current, i) => acc + current * (i + 1), strLength): the
\* holes of the array are skipped
RECURSIVE WeightedSum(_, _)
WeightedSum(array, k) ==
    IF k = 0 THEN 0
    ELSE WeightedSum(array, k - 1)
             + (IF array[k] = Hole THEN 0 ELSE array[k] * k)

\* part_000:518.  `!packet[0] === 31` is never true, so every packet is
\* taken.  radioPackets is indexed by the crc of the packet alone, for all
\* the serial ports and radio boards of the adapter.  JSON.parse is outside
\* any try: a text that does not parse throws through the data handler.
processRadioPacket(s, radioDeviceID, packet) ==
    LET index == At(packet, 1)
        strLength == At(packet, 2)
        crc == At(packet, 3)
        old == IF crc \in DOMAIN s.radioPackets
               THEN s.radioPackets[crc]
               ELSE <<>>
        pos(i) == ((index - 1) * 28) + i - 4
        written == IF index = Undef THEN {}
                   ELSE {i \in 4..31 : At(packet, i) # 0 /\ pos(i) >= 0}
        ends == {Len(old)} \cup {pos(i) + 1 : i \in written}
        length == CHOOSE n \in ends : \A m \in ends : m <= n
        array == [k \in 1..length |->
                     IF \E i \in written : pos(i) = k - 1
                     THEN At(packet, 4 + (k - 1) - ((index - 1) * 28))
                     ELSE IF k <= Len(old) THEN old[k] ELSE Hole]
        string == [k \in 1..length |->
                      IF array[k] \in {Hole, Undef} THEN 0
                      ELSE array[k] % 65536]
        computedCRC == IF \E k \in 1..length : array[k] = Undef
                       THEN Undef
                       ELSE (strLength + WeightedSum(array, length)) % 255
        stored == [s EXCEPT !.radioPackets = (crc :> array) @@ @]
        cleared == [s EXCEPT
                      !.radioPackets =
                          [c \in (DOMAIN @) \ {crc} |-> @[c]]]
    IN  IF length # strLength
        THEN stored
        ELSE IF computedCRC # Undef /\ computedCRC = crc
             THEN IF StartsWith(string, TitlePrefix)
                  THEN IF JSONparse(string).ok
                       THEN addDevice(cleared, JSONparse(string),
                                      radioDeviceID)
                       ELSE [cleared EXCEPT !.threw = TRUE]
                  ELSE cleared
             ELSE [stored EXCEPT
                     !.out = Append(@, packBroadcastMessage(
                                 JSStr(MozResend \o ToDecimal(crc))))]

\* part_000: message.startsWith throws a TypeError when the payload is no
\* string.  A broadcast that is no radio packet looks for the device with
\* the radio ID null, which no device has: a device attached directly has
\* it undefined.
processBroadcast(s, message) ==
    IF message.t # "str"
    THEN [s EXCEPT !.threw = TRUE]
    ELSE LET isRadioPacket == StartsWith(message.v, MozPacket)
             radioDeviceID == IF isRadioPacket
                              THEN JSStr(getRadioDeviceID(message.v))
                              ELSE JSNull
             d == deviceAtPortOf("p0", s.devices, s.port, radioDeviceID)
         IN  IF d # 0
             THEN LET contents == IF isRadioPacket
                                  THEN extractRadioString(message.v)
                                  ELSE message.v
                  IN  IF contents \in s.devices[d].events
                      THEN [s EXCEPT
                              !.notified = Append(@, EventNote(contents))]
                      ELSE s
             ELSE IF isRadioPacket
                  THEN processRadioPacket(s, radioDeviceID,
                                          RadioBytes(message.v))
                  ELSE s

\* microblocks-adapter.js:1242: device.events.get(message)
processBroadcastMA(s, message) ==
    LET d == deviceAtPortOf("ma", s.devices, s.port, JSUndefined)
    IN  IF d # 0 /\ message.t = "str" /\ message.v \in s.devices[d].events
        THEN [s EXCEPT !.notified = Append(@, EventNote(message.v))]
        ELSE s

HandledOpCodes == {OpVarName, OpVarValue, OpBroadcast, OpOutputValue}

LogEntry(buf, opCode, objectID, dataSize) ==
    [op |-> opCode, id |-> objectID,
     payload |-> IF opCode \in HandledOpCodes
                 THEN getPayload(buf, dataSize)
                 ELSE JSUndefined]

\* the short message branch: slice(3), then processData again
ShortMessage_keep(s) == [s EXCEPT !.extracted = @ + 1, !.again = TRUE]

ShortMessage(s) ==
    [s EXCEPT
       !.buffer = SliceFrom(s.buffer, 3),
       !.extracted = @ + 1,
       !.again = TRUE]

\* the last branch: the buffer is cut at the first 0xFB, or emptied
Resync_skipMarker(s) ==
    LET checkIndex == IndexOf(s.buffer, LongMarker)
    IN  IF checkIndex > -1
        THEN [s EXCEPT
                !.buffer = SliceFrom(s.buffer, checkIndex + 1),
                !.again = TRUE]
        ELSE [s EXCEPT !.buffer = <<>>, !.again = FALSE]

Resync(s) ==
    LET checkIndex == IndexOf(s.buffer, LongMarker)
    IN  IF checkIndex > -1
        THEN [s EXCEPT
                !.buffer = SliceFrom(s.buffer, checkIndex),
                !.again = TRUE]
        ELSE [s EXCEPT !.buffer = <<>>, !.again = FALSE]

\* a long message that is not complete: processData returns
IncompleteMessage_drop(s) ==
    [s EXCEPT !.buffer = SliceFrom(s.buffer, 1), !.again = FALSE]

IncompleteMessage(s) == [s EXCEPT !.again = FALSE]

\* a complete long message (part_000): the handler of its opcode, slice,
\* processData again; a handler that throws leaves processData there
CompleteMessage(s) ==
    LET opCode == At(s.buffer, 1)
        objectID == At(s.buffer, 2)
        dataSize == dataSizeOf(s.buffer)
        payload == getPayload(s.buffer, dataSize)
        found == [s EXCEPT
                    !.log = Append(@, LogEntry(s.buffer, opCode, objectID,
                                               dataSize))]
        handled ==
            CASE opCode = OpVarName ->
                    processVariableName(found, objectID, payload)
              [] opCode = OpVarValue ->
                    processVariableValue(found, objectID, payload,
                                         getPayloadType(s.buffer))
              [] opCode = OpBroadcast -> processBroadcast(found, payload)
              [] OTHER -> found
    IN  IF handled.threw
        THEN [handled EXCEPT !.again = FALSE]
        ELSE [handled EXCEPT
                !.buffer = SliceFrom(s.buffer, 5 + dataSize),
                !.extracted = @ + 1,
                !.again = TRUE]

\* microblocks-adapter.js:1054
CompleteMessageMA(s) ==
    LET opCode == At(s.buffer, 1)
        objectId == At(s.buffer, 2)
        dataSize == dataSizeOf(s.buffer)
        payload == getPayload(s.buffer, dataSize)
        found == [s EXCEPT
                    !.log = Append(@, LogEntry(s.buffer, opCode, objectId,
                                               dataSize))]
        handled ==
            CASE opCode = OpVarName ->
                    processVariableName(found, objectId, payload)
              [] opCode = OpVarValue ->
                    processVariableValueMA(found, objectId, payload,
                                           getPayloadType(s.buffer))
              [] opCode = OpBroadcast -> processBroadcastMA(found, payload)
              [] OTHER -> found
    IN  [handled EXCEPT
           !.buffer = SliceFrom(s.buffer, 5 + dataSize),
           !.extracted = @ + 1,
           !.again = TRUE]

\* One invocation of processData (part_000) up to its recursive call:
\* again says that it ends by calling itself.
processDataStep(s) ==
    LET check == At(s.buffer, 0)
        dataSize == dataSizeOf(s.buffer)
    IN  IF check = LongMarker
        THEN IF Len(s.buffer) >= dataSize + 5
             THEN CompleteMessage(s)
             ELSE IncompleteMessage(s)
        ELSE IF check = ShortMarker
             THEN ShortMessage(s)
             ELSE Resync(s)

\* microblocks-adapter.js:1044: discoveredDevice on every 0xFB
processDataStepMA(s) ==
    LET check == At(s.buffer, 0)
        dataSize == dataSizeOf(s.buffer)
    IN  IF check = LongMarker
        THEN IF Len(s.buffer) >= dataSize + 5
             THEN CompleteMessageMA(discoveredDevice(s))
             ELSE IncompleteMessage(discoveredDevice(s))
        ELSE IF check = ShortMarker
             THEN ShortMessage(s)
             ELSE Resync(s)

\* uprotocol.js:190: the opcodes that Protocol.prototype.descriptors lists
ProtoOpCodes == (1..22) \cup (26..31) \cup {255}

\* mutant: a short message is taken before its three bytes are there
ShortComplete_eager(buf) == TRUE

\* uprotocol.js:93: !isLong && this.messageBuffer.length >= 3
ShortComplete(buf) == Len(buf) >= 3

\* uprotocol.js:104: Protocol.prototype.processMessage for a message of size
\* bytes.  An opcode without descriptor has no selector to read, and a
\* jsonMessage parses its data as JSON, which no data of this model is: both
\* throw.  The client is taken to have a function for every selector; the
\* call is recorded in log.
processMessage(s, dataSize, size) ==
    LET opCode == At(s.buffer, 1)
        taskId == At(s.buffer, 2)
    IN  IF opCode \notin ProtoOpCodes \/ opCode = 255
        THEN [s EXCEPT !.threw = TRUE, !.again = FALSE]
        ELSE [s EXCEPT
                !.log = Append(@, [op |-> opCode, id |-> taskId,
                                   payload |->
                                       IF dataSize # 0
                                       THEN JSStr(Slice(s.buffer, 5,
                                                        5 + dataSize))
                                       ELSE JSUndefined]),
                !.buffer = SliceFrom(s.buffer, size),
                !.extracted = @ + 1,
                !.again = TRUE]

\* uprotocol.js:68: one invocation of Protocol.prototype.parseMessage up to
\* its recursive call
parseMessage(s) ==
    LET check == At(s.buffer, 0)
        isLong == check = LongMarker
        opCode == At(s.buffer, 1)
        dataSize == dataSizeOf(s.buffer)
    IN  IF check # ShortMarker /\ check # LongMarker
        THEN [s EXCEPT !.buffer = <<>>, !.again = FALSE]
        ELSE IF opCode = Undef \/ opCode = 0
        THEN [s EXCEPT !.again = FALSE]
        ELSE IF isLong /\ Len(s.buffer) >= 5
        THEN IF Len(s.buffer) >= dataSize + 5
             THEN processMessage(s, dataSize, 5 + dataSize)
             ELSE [s EXCEPT !.again = FALSE]
        ELSE IF ~isLong /\ ShortComplete(s.buffer)
        THEN processMessage(s, 0, 3)
        ELSE [s EXCEPT !.again = FALSE]

\* the source that handles the bytes: part_000, microblocks-adapter.js from
\* line 764 on, or the Protocol of uprotocol.js
StepOf(v, s) ==
    IF v = "p0" THEN processDataStep(s)
    ELSE IF v = "ma" THEN processDataStepMA(s)
    ELSE parseMessage(s)

\* processData: the invocation and every invocation it makes of itself
RECURSIVE processData(_, _)
processData(v, s) ==
    LET r == StepOf(v, s)
    IN  IF r.again THEN processData(v, r) ELSE r

\* the session as a data event finds it
Session ==
    [buffer |-> buffer, timeout |-> timeout, devices |-> devices, out |-> out,
     notified |-> notified, log |-> log, extracted |-> extracted,
     threw |-> FALSE, again |-> FALSE,
     port |-> ThisPort, radioPackets |-> radioPackets]

SetSession(r) ==
    /\ buffer' = r.buffer
    /\ timeout' = r.timeout
    /\ devices' = r.devices
    /\ out' = r.out
    /\ notified' = r.notified
    /\ log' = r.log
    /\ extracted' = r.extracted
    /\ threw' = r.threw
    /\ radioPackets' = r.radioPackets

----------------------------------------------------------------------------
(* Codec specification: Init draws the inputs, the actions apply the       *)
(* functions.                                                              *)

\* the link of a specification that has none
InitIdleLink ==
    /\ variant = "p0"
    /\ frames = <<>>
    /\ fed = 0
    /\ lastEmpty = FALSE
    /\ pc = "idle"
    /\ depth = 0
    /\ board = BoardIdle
    /\ open = "new"
    /\ buffer = <<>>
    /\ timeout = FALSE
    /\ devices = <<>>
    /\ out = <<>>
    /\ notified = <<>>
    /\ log = <<>>
    /\ extracted = 0
    /\ threw = FALSE
    /\ links = <<>>
    /\ radioPackets = <<>>

CodecIds == {0, 2, 255}

IntValues ==
    {-2147483647 - 1, -16777216, -65536, -256, -1, 0, 1, 127, 128, 255, 256,
     65535, 65536, 16777215, 2147483647}

\* printable ASCII: space, 'a', '~'
PrintableChars == {32, 97, 126}

StrValues == SeqsUpTo(PrintableChars, MaxStrLen)

CodecInputs ==
    {[id |-> i, val |-> JSInt(n), type |-> 1] : i \in CodecIds, n \in IntValues}
    \cup {[id |-> i, val |-> JSBool(b), type |-> 3] :
              i \in CodecIds, b \in BOOLEAN}
    \cup {[id |-> i, val |-> JSStr(s), type |-> 2] :
              i \in CodecIds, s \in StrValues}

\* payload bytes of inbound frames: tags, a byte above the tags, value bytes
InboundBytes == {0, 1, 2, 3, 4, 97, 255}

\* a complete long frame from the board: header, MaxStrLen..MaxStrLen+4 bytes
InboundFrames ==
    {<<LongMarker, OpVarValue, 2, Len(p) % 256, 0>> \o p :
         p \in SeqsUpTo(InboundBytes, MaxStrLen + 1)}
    \cup {<<LongMarker, OpVarValue, 2, 6, 0, 1>> \o p \o <<Terminator>> :
              p \in {<<0, 0, 0, 0>>, <<255, 255, 255, 255>>, <<0, 0, 0, 128>>,
                     <<1, 2, 3, 4>>, <<255, 255, 255, 127>>}}

InitCodec ==
    /\ InitIdleLink
    /\ stage = "init"
    /\ arg \in CodecInputs
    /\ frame = <<>>
    /\ isDecoded = FALSE
    /\ decoded = JSUndefined
    /\ decodedType = -1

PackSetVariable ==
    /\ stage = "init"
    /\ stage' = "setvar"
    /\ frame' = packSetVariableMessage(arg.id, arg.val, arg.type)
    /\ UNCHANGED <<arg, isDecoded, decoded, decodedType, streamVars, sessionVars>>
    /\ UNCHANGED linkVars

PackBroadcast ==
    /\ stage = "init"
    /\ arg.type = 2
    /\ stage' = "broadcast"
    /\ frame' = packBroadcastMessage(arg.val)
    /\ UNCHANGED <<arg, isDecoded, decoded, decodedType, streamVars, sessionVars>>
    /\ UNCHANGED linkVars

ProbeRequest ==
    /\ stage = "init"
    /\ stage' = "probe"
    /\ frame' = probeMessage
    /\ UNCHANGED <<arg, isDecoded, decoded, decodedType, streamVars, sessionVars>>
    /\ UNCHANGED linkVars

Receive ==
    /\ stage = "init"
    /\ stage' = "inbound"
    /\ frame' \in InboundFrames
    /\ UNCHANGED <<arg, isDecoded, decoded, decodedType, streamVars, sessionVars>>
    /\ UNCHANGED linkVars

\* what follows a frame in the buffer: the frames of the board that come next
Followers ==
    {<<ShortMarker, OpGetVarValue, 2>>,
     <<LongMarker, OpVarValue, 2, 3, 0, 3, 1, Terminator>>}

\* a complete long frame arrives with the next frame behind it in the buffer
ReceiveFollowed ==
    /\ stage = "init"
    /\ stage' = "followed"
    /\ \E f \in InboundFrames, g \in Followers : frame' = f \o g
    /\ UNCHANGED <<arg, isDecoded, decoded, decodedType, streamVars, sessionVars>>
    /\ UNCHANGED linkVars

Decode ==
    /\ stage \in {"setvar", "inbound", "followed"}
    /\ ~isDecoded
    /\ frame # NoFrame
    /\ isDecoded' = TRUE
    /\ decoded' = getPayload(frame, dataSizeOf(frame))
    /\ decodedType' = getPayloadType(frame)
    /\ UNCHANGED <<stage, arg, frame, streamVars, sessionVars>>
    /\ UNCHANGED linkVars

NextCodec ==
    \/ PackSetVariable
    \/ PackBroadcast
    \/ ProbeRequest
    \/ Receive
    \/ ReceiveFollowed
    \/ Decode

SpecCodec == InitCodec /\ [][NextCodec]_vars

(* The repair of a description text, on the prefixes of a description and *)
(* on short texts of braces and commas                                    *)

\* ',', '{', '}', 'a'
RepairChars == {44, 123, 125, 97}

RepairInputs ==
    {SubSeq(DescriptionText2, 1, n) : n \in 0..Len(DescriptionText2)}
        \cup SeqsUpTo(RepairChars, MaxStrLen)

InitRepair ==
    /\ InitIdleLink
    /\ stage = "init"
    /\ arg \in {[id |-> DescriptionID, val |-> JSStr(text), type |-> 2] :
                   text \in RepairInputs}
    /\ frame = <<>>
    /\ isDecoded = FALSE
    /\ decoded = JSUndefined
    /\ decodedType = -1

\* processVariableValue repairs the text it was handed
Repair ==
    /\ stage = "init"
    /\ stage' = "repaired"
    /\ frame' = RepairDescription(arg.val.v)
    /\ UNCHANGED <<arg, isDecoded, decoded, decodedType, streamVars, sessionVars>>
    /\ UNCHANGED linkVars

SpecRepair == InitRepair /\ [][Repair]_vars


----------------------------------------------------------------------------
(* The link: what the open, data and timeout handlers of probePort do *)

\* a long frame as the wire format has it: the size counts the terminator
LongFrame(opCode, objectID, data) ==
    <<LongMarker, opCode, objectID,
      (Len(data) + 1) % 256, ((Len(data) + 1) \div 256) % 256>>
        \o data \o <<Terminator>>

\* a long frame shaped as the example of the specification: the size is the
\* length of the data, and 0xFE follows the frame
ExampleFrame(opCode, objectID, data) ==
    <<LongMarker, opCode, objectID, Len(data) % 256, (Len(data) \div 256) % 256>>
        \o data \o <<Terminator>>

ShortFrame(opCode, objectID) == <<ShortMarker, opCode, objectID>>

\* what the board of the framer specification may send
Catalogue ==
    {ShortFrame(OpGetVarValue, 2),
     ShortFrame(OpGetVarValue, LongMarker),
     LongFrame(OpVarName, 2, <<108>>),
     LongFrame(OpVarValue, 2, <<1, 5, 0, 0, 0>>),
     LongFrame(OpBroadcast, 0, <<97>>),
     LongFrame(OpBroadcast, 0, <<1, 97>>),
     <<0, 0>>,
     ExampleFrame(OpVarValue, DescriptionID, DescriptionText)}

RECURSIVE Flatten(_)
Flatten(ss) == IF ss = <<>> THEN <<>> ELSE Head(ss) \o Flatten(Tail(ss))

\* the bytes the board sends
Wire == Flatten(frames)

InitSession ==
    /\ open = "new"
    /\ buffer = <<>>
    /\ timeout = FALSE
    /\ devices = <<>>
    /\ out = <<>>
    /\ notified = <<>>
    /\ log = <<>>
    /\ extracted = 0
    /\ threw = FALSE
    /\ links = <<>>
    /\ radioPackets = <<>>

InitCodecIdle ==
    /\ stage = "init"
    /\ arg = [id |-> 0, val |-> JSUndefined, type |-> 0]
    /\ frame = <<>>
    /\ isDecoded = FALSE
    /\ decoded = JSUndefined
    /\ decodedType = -1

\* serialPort.on('open'): startAll, the description request, the timeout
Open ==
    /\ open = "new"
    /\ open' = "open"
    /\ out' = out \o <<IF variant = "p0"
                       THEN <<ShortMarker, OpStartAll, 0>>
                       ELSE <<ShortMarker, 0, OpStartAll>>,
                       probeMessage>>
    /\ timeout' = TRUE
    /\ UNCHANGED <<buffer, devices, notified, log, extracted, threw>>
    /\ UNCHANGED <<codecVars, streamVars>>
    /\ UNCHANGED linkVars

\* serialPort.on('data') with the next n bytes of the wire; of the empty
\* chunks that arrive in a row the first is modelled, and the link is
\* followed until MaxLog frames were dispatched
Data(n) ==
    /\ open = "open"
    /\ pc = "idle"
    /\ fed + n <= Len(Wire)
    /\ (n = 0) => ~lastEmpty
    /\ Len(log) < MaxLog
    /\ LET chunk == SubSeq(Wire, fed + 1, fed + n)
           r == processData(variant,
                            [Session EXCEPT !.buffer = buffer \o chunk])
       IN  SetSession(r)
    /\ fed' = fed + n
    /\ lastEmpty' = (n = 0)
    /\ UNCHANGED <<open, variant, frames, pc, depth, board, codecVars>>
    /\ UNCHANGED links

\* mutant: the timeout callback runs although clearTimeout was called
ProbeTimeout_uncancelled ==
    /\ open = "open"
    /\ pc = "idle"
    /\ open' = "closed"
    /\ timeout' = FALSE
    /\ UNCHANGED <<buffer, devices, out, notified, log, extracted, threw>>
    /\ UNCHANGED <<codecVars, streamVars>>
    /\ UNCHANGED linkVars

\* the discovery timeout fires: the port is closed
ProbeTimeout ==
    /\ open = "open"
    /\ pc = "idle"
    /\ timeout
    /\ open' = "closed"
    /\ timeout' = FALSE
    /\ UNCHANGED <<buffer, devices, out, notified, log, extracted, threw>>
    /\ UNCHANGED <<codecVars, streamVars>>
    /\ UNCHANGED linkVars

InitFramer ==
    /\ InitCodecIdle
    /\ InitSession
    /\ variant \in {"p0", "ma"}
    /\ frames \in SeqsUpTo(Catalogue, MaxFrames)
    /\ fed = 0
    /\ lastEmpty = FALSE
    /\ pc = "idle"
    /\ depth = 0
    /\ board = BoardIdle

NextFramer ==
    \/ Open
    \/ \E n \in 0..Len(Wire) : Data(n)
    \/ ProbeTimeout

SpecFramer == InitFramer /\ [][NextFramer]_vars

\* what a board may send to a Protocol: short and long frames, with the
\* opcode 0, with an opcode that has no descriptor (0x17), with no data
ProtoCatalogue ==
    {ShortFrame(OpGetVarValue, 2),
     ShortFrame(0, 2),
     ShortFrame(OpVarValue, ShortMarker),
     LongFrame(OpVarValue, 2, <<1, 5>>),
     LongFrame(OpBroadcast, LongMarker, <<97>>),
     LongFrame(23, 0, <<97>>),
     <<LongMarker, OpBroadcast, 0, 0, 0>>}

\* new Protocol(client): processRawData may be called at once
InitProto ==
    /\ InitCodecIdle
    /\ variant = "up"
    /\ frames \in SeqsUpTo(ProtoCatalogue, MaxFrames)
    /\ fed = 0
    /\ lastEmpty = FALSE
    /\ pc = "idle"
    /\ depth = 0
    /\ board = BoardIdle
    /\ open = "open"
    /\ buffer = <<>>
    /\ timeout = FALSE
    /\ devices = <<>>
    /\ out = <<>>
    /\ notified = <<>>
    /\ log = <<>>
    /\ extracted = 0
    /\ threw = FALSE
    /\ links = <<>>
    /\ radioPackets = <<>>

\* Protocol.prototype.processRawData with the next n bytes
NextProto == \E n \in 0..Len(Wire) : Data(n)

SpecProto == InitProto /\ [][NextProto]_vars

(* processData taken one invocation at a time, on arbitrary bytes *)

StepBytes == {0, 1, OpBroadcast, ShortMarker, LongMarker}

\* a chunk arrives and the data handler appends it
Arrive(chunk) ==
    /\ open = "open"
    /\ pc = "idle"
    /\ fed + Len(chunk) <= MaxStepBytes
    /\ (chunk = <<>>) => ~lastEmpty
    /\ buffer' = buffer \o chunk
    /\ fed' = fed + Len(chunk)
    /\ lastEmpty' = (chunk = <<>>)
    /\ pc' = "run"
    /\ depth' = 0
    /\ threw' = FALSE
    /\ UNCHANGED <<open, timeout, devices, out, notified, log, extracted>>
    /\ UNCHANGED <<variant, frames, board, codecVars>>
    /\ UNCHANGED linkVars

\* one invocation of processData: it returns, or calls itself
Step ==
    /\ pc = "run"
    /\ LET r == StepOf(variant, Session)
       IN  /\ SetSession(r)
           /\ pc' = IF r.again THEN "run" ELSE "idle"
    /\ depth' = depth + 1
    /\ UNCHANGED <<open, variant, frames, fed, lastEmpty, board, codecVars>>
    /\ UNCHANGED links

InitSteps ==
    /\ InitCodecIdle
    /\ InitSession
    /\ variant \in {"p0", "ma"}
    /\ frames = <<>>
    /\ fed = 0
    /\ lastEmpty = FALSE
    /\ pc = "idle"
    /\ depth = 0
    /\ board = BoardIdle

NextSteps ==
    \/ Open
    \/ \E chunk \in SeqsUpTo(StepBytes, MaxStepBytes - fed) : Arrive(chunk)
    \/ Step
    \/ ProbeTimeout

SpecSteps == InitSteps /\ [][NextSteps]_vars

----------------------------------------------------------------------------
(* The synchronisation of the properties of one device: the board answers  *)
(* what the adapter writes, its frames are delivered whole, the host sets  *)
(* a property, and the timers of the properties fire.                      *)

\* the value the host sets
HostValue == 100

\* the k-th value the program on the board gives to a variable
RemoteValue(k) == 5 + k

\* the names of the board's variables: "l", "m"
VarNames == <<<<108>>, <<109>>>>

DescriptionFrame ==
    ExampleFrame(OpVarValue, DescriptionID,
                 <<2>> \o (IF Len(board.ids) = 1 THEN DescriptionText
                                                 ELSE DescriptionText2))

\* the variableName frame of the k-th variable; a board that pads sends the
\* name with a NUL byte behind it
NameFrame(k) ==
    ExampleFrame(OpVarName, board.ids[k],
                 IF board.padded THEN VarNames[k] \o <<0>> ELSE VarNames[k])

ValueFrame(k) ==
    ExampleFrame(OpVarValue, board.ids[k],
                 <<1, board.value[k] % 256, 0, 0, 0>>)

\* the frames the board sends in answer to a message
BoardAnswer(message) ==
    IF message = probeMessage THEN <<DescriptionFrame>>
    ELSE IF message = GetVarNamesMessage
         THEN [k \in 1..Len(board.ids) |-> NameFrame(k)]
    ELSE IF /\ Len(message) = 3
            /\ message[2] = OpGetVarValue
            /\ \E k \in 1..Len(board.ids) : board.ids[k] = message[3]
         THEN <<ValueFrame(CHOOSE k \in 1..Len(board.ids) :
                               board.ids[k] = message[3])>>
    ELSE <<>>

\* the board reads the next message the adapter wrote
BoardStep ==
    /\ board.read < Len(out)
    /\ LET message == out[board.read + 1]
           isSet(k) == /\ Len(message) = 11
                       /\ message[2] = OpSetVar
                       /\ message[3] = board.ids[k]
       IN  /\ board' = [board EXCEPT
                          !.read = @ + 1,
                          !.value = [k \in 1..Len(board.ids) |->
                                        IF isSet(k)
                                        THEN Int32LE(message[7], message[8],
                                                     message[9], message[10])
                                        ELSE board.value[k]]]
           /\ frames' = frames \o BoardAnswer(message)
    /\ UNCHANGED <<variant, fed, lastEmpty, pc, depth>>
    /\ UNCHANGED <<codecVars, sessionVars>>
    /\ UNCHANGED linkVars

\* the program on the board changes its k-th variable
BoardChange(k) ==
    /\ board.changes < MaxChanges
    /\ board' = [board EXCEPT
                   !.value[k] = RemoteValue(board.changes),
                   !.changes = @ + 1]
    /\ UNCHANGED <<variant, frames, fed, lastEmpty, pc, depth>>
    /\ UNCHANGED <<codecVars, sessionVars>>
    /\ UNCHANGED linkVars

\* serialPort.on('data') with the oldest frame in flight
Deliver ==
    /\ open = "open"
    /\ frames # <<>>
    /\ \E r \in {processData(variant,
                            [Session EXCEPT
                               !.buffer = buffer \o Head(frames)])} :
           SetSession(r)
    /\ frames' = Tail(frames)
    /\ UNCHANGED <<open, variant, fed, lastEmpty, pc, depth, board, codecVars>>
    /\ UNCHANGED links

\* the properties of the device at the port
Props == devices[deviceAtPort(devices)].props

PropertyIndexes ==
    IF deviceAtPort(devices) = 0 THEN {} ELSE 1..Len(Props)

HostWrote(i) ==
    \E n \in 1..Len(notified) :
        notified[n] = PropertyNote(Props[i].name, JSInt(HostValue))

\* mutant: one requestingChange flag for the whole device
HostSetMA_deviceFlag(d, i) ==
    LET property == devices[d].props[i]
        value == JSInt(HostValue)
        message == packSetVariableMessage(property.varID, value,
                                          property.varType)
        written == property.varID # Null /\ Truthy(JSInt(property.varID))
    IN  /\ notified' = Append(notified, PropertyNote(property.name, value))
        /\ IF written /\ message # NoFrame
           THEN /\ out' = Append(out, message)
                /\ devices' = [devices EXCEPT
                                 ![d].props = [j \in DOMAIN @ |->
                                     [@[j] EXCEPT
                                        !.requestingChange = TRUE]],
                                 ![d].props[i].value = value,
                                 ![d].props[i].echoTimer = TRUE]
           ELSE /\ out' = out
                /\ devices' = [devices EXCEPT
                                 ![d].props[i].value = value,
                                 ![d].props[i].requestingChange = TRUE]

\* microblocks-adapter.js: setValue(value) and, once its promise resolves,
\* notifyPropertyChanged(property)
HostSetMA(d, i) ==
    LET property == devices[d].props[i]
        value == JSInt(HostValue)
        message == packSetVariableMessage(property.varID, value,
                                          property.varType)
        written == property.varID # Null /\ Truthy(JSInt(property.varID))
    IN  /\ notified' = Append(notified, PropertyNote(property.name, value))
        /\ IF written /\ message # NoFrame
           THEN /\ out' = Append(out, message)
                /\ devices' = [devices EXCEPT
                                 ![d].props[i].value = value,
                                 ![d].props[i].requestingChange = TRUE,
                                 ![d].props[i].echoTimer = TRUE]
           ELSE /\ out' = out
                /\ devices' = [devices EXCEPT
                                 ![d].props[i].value = value,
                                 ![d].props[i].requestingChange = TRUE]

\* part_000: setValue(value): the message is written and the host notified
\* once the promise of the base class resolves; packSetVariableMessage
\* throws while the type of the variable is not known
HostSetP0(d, i) ==
    LET property == devices[d].props[i]
        value == JSInt(HostValue)
        message == packSetVariableMessage(IF property.varID = Null THEN 0
                                          ELSE property.varID,
                                          value, property.varType)
    IN  /\ devices' = [devices EXCEPT ![d].props[i].value = value]
        /\ IF message # NoFrame
           THEN /\ out' = Append(out, message)
                /\ notified' = Append(notified,
                                      PropertyNote(property.name, value))
           ELSE /\ out' = out
                /\ notified' = notified

\* the gateway sets the i-th property
HostSet(i) ==
    /\ open = "open"
    /\ i \in PropertyIndexes
    /\ ~HostWrote(i)
    /\ IF variant = "ma"
       THEN HostSetMA(deviceAtPort(devices), i)
       ELSE HostSetP0(deviceAtPort(devices), i)
    /\ UNCHANGED <<open, buffer, timeout, log, extracted, threw>>
    /\ UNCHANGED <<codecVars, streamVars>>
    /\ UNCHANGED linkVars

\* the poller of the i-th property fires
PollTick(i) ==
    /\ open = "open"
    /\ i \in PropertyIndexes
    /\ Len(out) < MaxOut
    /\ LET d == deviceAtPort(devices)
           property == devices[d].props[i]
           polls == /\ property.varID # Null
                    /\ Truthy(JSInt(property.varID))
                    /\ ~property.requestingChange
       IN  /\ property.poller
           /\ property.ticks < MaxTicks
           /\ devices' = [devices EXCEPT ![d].props[i].ticks = @ + 1]
           /\ out' = IF polls
                     THEN Append(out, <<ShortMarker, OpGetVarValue,
                                        property.varID>>)
                     ELSE out
    /\ UNCHANGED <<open, buffer, timeout, notified, log, extracted, threw>>
    /\ UNCHANGED <<codecVars, streamVars>>
    /\ UNCHANGED linkVars

\* an interval that notifyPropertyChanged has set for the i-th property fires
EchoClearTick(i) ==
    /\ i \in PropertyIndexes
    /\ LET d == deviceAtPort(devices)
       IN  /\ devices[d].props[i].echoTimer
           /\ devices[d].props[i].requestingChange
           /\ devices' = [devices EXCEPT
                            ![d].props[i].requestingChange = FALSE]
    /\ UNCHANGED <<open, buffer, timeout, out, notified, log, extracted,
                   threw>>
    /\ UNCHANGED <<codecVars, streamVars>>
    /\ UNCHANGED linkVars

\* the variable IDs a board gives to its one variable
SyncIDs == {0, VarID}

InitSync ==
    /\ InitCodecIdle
    /\ InitSession
    /\ variant \in {"p0", "ma"}
    /\ frames = <<>>
    /\ fed = 0
    /\ lastEmpty = FALSE
    /\ pc = "idle"
    /\ depth = 0
    /\ board \in {[BoardIdle EXCEPT !.ids = <<id>>, !.padded = padded] :
                     id \in SyncIDs, padded \in BOOLEAN}

NextSync ==
    \/ Open
    \/ BoardStep
    \/ \E k \in 1..Len(board.ids) : BoardChange(k)
    \/ Deliver
    \/ \E i \in PropertyIndexes : HostSet(i)
    \/ \E i \in PropertyIndexes : PollTick(i)
    \/ \E i \in PropertyIndexes : EchoClearTick(i)
    \/ ProbeTimeout

SpecSync == InitSync /\ [][NextSync]_vars

\* a data event is due: Deliver is enabled
DeliverEnabled == open = "open" /\ frames # <<>>


\* the step is a data event with the oldest frame in flight
DeliverStep == frames # <<>> /\ frames' = Tail(frames)

\* timers that are set fire, the board reads what it was sent, and frames in
\* flight are delivered: weak fairness of Deliver, written with
\* DeliverEnabled for its enabling condition and DeliverStep for its steps
FairSync ==
    /\ ([]<>~DeliverEnabled \/ []<><<DeliverStep>>_vars)
    /\ WF_vars(BoardStep)
    /\ WF_vars(EchoClearTick(1))
    /\ WF_vars(PollTick(1))

SpecSyncFair == SpecSync /\ FairSync

\* a board with two variables, "l" and "m", and the device with the two
\* properties of its description (microblocks-adapter.js)
PairIDs == {<<VarID, VarID + 1>>}

InitPair ==
    /\ InitCodecIdle
    /\ InitSession
    /\ variant = "ma"
    /\ frames = <<>>
    /\ fed = 0
    /\ lastEmpty = FALSE
    /\ pc = "idle"
    /\ depth = 0
    /\ board \in {[BoardIdle EXCEPT !.ids = ids, !.value = <<0, 0>>] :
                     ids \in PairIDs}

\* the program on this board assigns its variables only when it is told to
NextPair ==
    \/ Open
    \/ BoardStep
    \/ Deliver
    \/ \E i \in PropertyIndexes : HostSet(i)
    \/ \E i \in PropertyIndexes : PollTick(i)
    \/ \E i \in PropertyIndexes : EchoClearTick(i)
    \/ ProbeTimeout

SpecPair == InitPair /\ [][NextPair]_vars

----------------------------------------------------------------------------
(* The adapter with several serial ports: probePort is called for each    *)
(* port that SerialPort.list reports, every port has its own buffer and   *)
(* timeout, and the devices and the radio packets belong to the adapter.  *)

Ports == {ThisPort, ThisPort + 1}

\* the frames that are followed on all the ports together
MaxLinkFrames == 2

\* the ID of the board behind the radio bridge: '7'
RadioID == <<55>>

\* the numbers of a radio packet as the bridge writes them: a,b,c
RECURSIVE JoinDecimal(_)
JoinDecimal(numbers) ==
    IF numbers = <<>> THEN <<>>
    ELSE IF Len(numbers) = 1 THEN ToDecimal(numbers[1])
    ELSE ToDecimal(numbers[1]) \o <<44>> \o JoinDecimal(Tail(numbers))

\* the index-th packet of a text: 31, the index, the length and the
\* checksum of the text, and 28 of its characters, padded with zeros
RadioPacket(text, index) ==
    LET crc == (Len(text) + WeightedSum(text, Len(text))) % 255
        piece == [i \in 1..28 |->
                     IF (index - 1) * 28 + i <= Len(text)
                     THEN text[(index - 1) * 28 + i]
                     ELSE 0]
    IN  <<31, index, Len(text), crc>> \o piece

\* the broadcast the bridge sends for a packet: 'moz-packet', the ID of the
\* board, ':' and the numbers
RadioFrameOf(text, index) ==
    ExampleFrame(OpBroadcast, 0,
                 MozPacket \o RadioID \o <<58>>
                     \o JoinDecimal(RadioPacket(text, index)))

RadioFrame(index) == RadioFrameOf(RadioDescription, index)

DescriptionFrameOf(text) ==
    ExampleFrame(OpVarValue, DescriptionID, <<2>> \o text)

\* what a board or a bridge may send on a port: the descriptions of T and of
\* U, the description of T cut behind '"properties":{', the name and a
\* value of the variable, the two packets of the radio description, a radio
\* text that begins as a description and is no JSON, a description that is
\* no JSON, a broadcast whose first byte reads as the type of an integer,
\* the description of E, which has the event 'a', and the broadcast 'a'
LinkCatalogue ==
    <<DescriptionFrameOf(DescriptionText),
      DescriptionFrameOf(DescriptionTextU),
      DescriptionFrameOf(SubSeq(DescriptionText, 1, 27)),
      ExampleFrame(OpVarName, VarID, VarNames[1]),
      ExampleFrame(OpVarValue, VarID, <<1, 5, 0, 0, 0>>),
      RadioFrame(1),
      RadioFrame(2),
      RadioFrameOf(TitlePrefix, 1),
      DescriptionFrameOf(<<123>>),
      ExampleFrame(OpBroadcast, 0, <<1, 97>>),
      DescriptionFrameOf(DescriptionTextE),
      ExampleFrame(OpBroadcast, 0, <<97>>)>>

RemovedNote(id) == [k |-> "removed", n |-> id, v |-> JSUndefined]

\* the port as new SerialPort leaves it; heard is the history of the frames
\* that arrived, late tells that a timer called the port after it was closed
NewLink ==
    [open |-> "new", buffer |-> <<>>, timeout |-> FALSE, out |-> <<>>,
     threw |-> FALSE, heard |-> <<>>, late |-> FALSE]

SessionAt(p) ==
    [buffer |-> links[p].buffer, timeout |-> links[p].timeout,
     devices |-> devices, out |-> links[p].out, notified |-> notified,
     log |-> <<>>, extracted |-> 0, threw |-> FALSE, again |-> FALSE,
     port |-> p, radioPackets |-> radioPackets]

\* how many frames arrived on all the ports
Heard == Len(links[ThisPort].heard) + Len(links[ThisPort + 1].heard)

InitLinks ==
    /\ InitCodecIdle
    /\ variant \in {"p0", "ma"}
    /\ frames = <<>>
    /\ fed = 0
    /\ lastEmpty = FALSE
    /\ pc = "idle"
    /\ depth = 0
    /\ board = BoardIdle
    /\ open = "new"
    /\ buffer = <<>>
    /\ timeout = FALSE
    /\ devices = <<>>
    /\ out = <<>>
    /\ notified = <<>>
    /\ log = <<>>
    /\ extracted = 0
    /\ threw = FALSE
    /\ links = [p \in Ports |-> NewLink]
    /\ radioPackets = <<>>

idleVars ==
    <<codecVars, frames, fed, lastEmpty, pc, depth, board, open, buffer,
      timeout, out, log, extracted, threw>>

\* serialPort.on('open') of port p
OpenAt(p) ==
    /\ links[p].open = "new"
    /\ links' = [links EXCEPT
                   ![p].open = "open",
                   ![p].out = @ \o <<IF variant = "p0"
                                     THEN <<ShortMarker, OpStartAll, 0>>
                                     ELSE <<ShortMarker, 0, OpStartAll>>,
                                     probeMessage>>,
                   ![p].timeout = TRUE]
    /\ UNCHANGED <<variant, devices, notified, radioPackets, idleVars>>

\* serialPort.on('data') of port p with the k-th frame of the catalogue
DataAt(p, k) ==
    /\ links[p].open = "open"
    /\ Heard < MaxLinkFrames
    /\ \E r \in {processData(variant,
                     [SessionAt(p) EXCEPT
                        !.buffer = @ \o LinkCatalogue[k]])} :
          /\ links' = [links EXCEPT
                         ![p].buffer = r.buffer,
                         ![p].timeout = r.timeout,
                         ![p].out = r.out,
                         ![p].threw = r.threw,
                         ![p].heard = Append(@, k)]
          /\ devices' = r.devices
          /\ notified' = r.notified
          /\ radioPackets' = r.radioPackets
    /\ UNCHANGED <<variant, idleVars>>

\* the callback of discoveryTimeout of port p: serialPort.close(), on a
\* port that may be closed already
ProbeTimeoutAt(p) ==
    /\ links[p].timeout
    /\ links' = [links EXCEPT
                   ![p].timeout = FALSE,
                   ![p].late = (links[p].open = "closed"),
                   ![p].open = "closed"]
    /\ UNCHANGED <<variant, devices, notified, radioPackets, idleVars>>

\* removeThing(thing) for the d-th device: its pollers are cleared with it,
\* its port is closed when it is open
removeThing(d) ==
    /\ devices' = SubSeq(devices, 1, d - 1)
                      \o SubSeq(devices, d + 1, Len(devices))
    /\ notified' = Append(notified, RemovedNote(devices[d].id))

\* serialPort.on('close') of port p with err.disconnected: the board was
\* unplugged
Unplug(p) ==
    /\ links[p].open = "open"
    /\ links' = [links EXCEPT ![p].open = "closed"]
    /\ LET device == deviceAtPortOf(variant, devices, p, JSUndefined)
       IN  IF device = 0
           THEN UNCHANGED <<devices, notified>>
           ELSE removeThing(device)
    /\ UNCHANGED <<variant, radioPackets, idleVars>>

\* the host removes the d-th device
HostRemove(d) ==
    /\ d \in 1..Len(devices)
    /\ removeThing(d)
    /\ links' = [links EXCEPT ![devices[d].port].open =
                                  IF @ = "open" THEN "closed" ELSE @]
    /\ UNCHANGED <<variant, radioPackets, idleVars>>

\* the poller of the i-th property of the d-th device fires; a tick of a
\* property that has no variable ID yet writes nothing and changes nothing
PollTickAt(d, i) ==
    /\ d \in 1..Len(devices)
    /\ i \in 1..Len(devices[d].props)
    /\ LET property == devices[d].props[i]
           p == devices[d].port
       IN  /\ property.poller
           /\ property.ticks < MaxTicks
           /\ property.varID # Null
           /\ Truthy(JSInt(property.varID))
           /\ ~property.requestingChange
           /\ devices' = [devices EXCEPT ![d].props[i].ticks = @ + 1]
           /\ links' = IF links[p].open = "open"
                       THEN [links EXCEPT
                               ![p].out = Append(@, <<ShortMarker,
                                                      OpGetVarValue,
                                                      property.varID>>)]
                       ELSE [links EXCEPT ![p].late = TRUE]
    /\ UNCHANGED <<variant, notified, radioPackets, idleVars>>

NextLinks ==
    \/ \E p \in Ports : OpenAt(p)
    \/ \E p \in Ports, k \in 1..Len(LinkCatalogue) : DataAt(p, k)
    \/ \E p \in Ports : ProbeTimeoutAt(p)
    \/ \E p \in Ports : Unplug(p)
    \/ \E d \in 1..Len(devices) : HostRemove(d)
    \/ \E d \in 1..Len(devices) :
          \E i \in 1..Len(devices[d].props) : PollTickAt(d, i)

SpecLinks == InitLinks /\ [][NextLinks]_vars

\* a timeout that is pending fires: setTimeout runs its callback unless
\* clearTimeout was called.  Nothing obliges a board to send or to be
\* unplugged.
SpecLinksFair ==
    SpecLinks /\ \A p \in Ports : WF_vars(ProbeTimeoutAt(p))

----------------------------------------------------------------------------
(* The 'moz-pair' handshake of microblocks-adapter.js, lines 1 to 300: the *)
(* adapter writes 'moz-pair', the board answers with broadcasts, and the   *)
(* dispatcher of each port keeps deviceDescriptor, device and responds.    *)

\* the broadcasts of a board: 'moz-pair A', 'moz-property {"name":"l"}',
\* 'moz-done', 'moz-property-changed {"name":"l","value":1}'
MozTexts ==
    [pair |->
        <<109, 111, 122, 45, 112, 97, 105, 114, 32, 65>>,
     property |->
        <<109, 111, 122, 45, 112, 114, 111, 112, 101, 114, 116, 121, 32, 123,
          34, 110, 97, 109, 101, 34, 58, 34, 108, 34, 125>>,
     done |->
        <<109, 111, 122, 45, 100, 111, 110, 101>>,
     changed |->
        <<109, 111, 122, 45, 112, 114, 111, 112, 101, 114, 116, 121, 45, 99,
          104, 97, 110, 103, 101, 100, 32, 123, 34, 110, 97, 109, 101, 34,
          58, 34, 108, 34, 44, 34, 118, 97, 108, 117, 101, 34, 58, 49,
          125>>]

\* the broadcasts that are followed on all the ports together
MaxMoz == 4

\* JSON.parse of the texts that follow 'moz-property ' and
\* 'moz-property-changed ' in MozTexts
MozJSON(text) ==
    IF text = SliceFrom(MozTexts.property, 13)
    THEN [ok |-> TRUE, name |-> <<108>>, value |-> JSUndefined]
    ELSE IF text = SliceFrom(MozTexts.changed, 21)
    THEN [ok |-> TRUE, name |-> <<108>>, value |-> JSInt(1)]
    ELSE [ok |-> FALSE, name |-> <<>>, value |-> JSUndefined]

\* uprotocol.js:154: Protocol.prototype.packMessage for a long message with
\* data and for a short one without task ID
packMessage(isLong, opCode, taskId, data) ==
    IF isLong
    THEN <<LongMarker, opCode, taskId,
           (Len(data) + 1) % 256, ((Len(data) + 1) \div 256) % 256>>
             \o data \o <<Terminator>>
    ELSE <<ShortMarker, opCode, taskId>>

\* 'moz-paired' as the dispatcher writes it
MozPaired ==
    packMessage(TRUE, OpBroadcast, 0,
                <<109, 111, 122, 45, 112, 97, 105, 114, 101, 100>>)

\* the port and the variables of its closure after startPairing: nothing
\* was named or declared, device is undefined, 'moz-pair' was written
NewMozLink ==
    [open |-> "new", timer |-> FALSE, responds |-> FALSE,
     name |-> JSUndefined, declared |-> {}, device |-> JSUndefined,
     out |-> <<packMessage(TRUE, OpBroadcast, 0,
                           SubSeq(MozTexts.pair, 1, 8))>>,
     n |-> 0]

InitMozPair ==
    /\ InitCodecIdle
    /\ variant = "mp"
    /\ frames = <<>>
    /\ fed = 0
    /\ lastEmpty = FALSE
    /\ pc = "idle"
    /\ depth = 0
    /\ board = BoardIdle
    /\ open = "new"
    /\ buffer = <<>>
    /\ timeout = FALSE
    /\ devices = <<>>
    /\ out = <<>>
    /\ notified = <<>>
    /\ log = <<>>
    /\ extracted = 0
    /\ threw = FALSE
    /\ links = [p \in Ports |-> NewMozLink]
    /\ radioPackets = <<>>

\* serialPort.on('open'): the timeout of 2000 ms is set
MozOpen(p) ==
    /\ links[p].open = "new"
    /\ links' = [links EXCEPT ![p].open = "open", ![p].timer = TRUE]
    /\ UNCHANGED <<variant, devices, notified, radioPackets, idleVars>>

\* the callback of that timeout: the port is closed unless responds
MozTimeout(p) ==
    /\ links[p].timer
    /\ links' = [links EXCEPT
                   ![p].timer = FALSE,
                   ![p].open = IF links[p].responds THEN @ ELSE "closed"]
    /\ UNCHANGED <<variant, devices, notified, radioPackets, idleVars>>

\* microblocks-adapter.js:284: addDevice and the constructor of the device,
\* which notifies each property and writes getVarNames; nothing when the
\* name is registered
MozDone(p) ==
    LET l == links[p]
        names == {x \in l.declared : TRUE}
        created == ~\E d \in 1..Len(devices) : devices[d] = l.name
        device == [t |-> "device", name |-> l.name,
                   values |-> [x \in names |-> JSUndefined]]
        order == CHOOSE q \in [1..Cardinality(names) -> names] :
                     \A x \in names : \E i \in DOMAIN q : q[i] = x
    IN  /\ devices' = IF created THEN Append(devices, l.name) ELSE devices
        /\ notified' =
              IF created
              THEN (notified
                      \o [i \in 1..Cardinality(names) |->
                             PropertyNote(order[i], JSUndefined)])
                      \o <<AddedNote(l.name)>>
              ELSE notified
        /\ links' =
              [links EXCEPT
                 ![p].device = IF created THEN device ELSE JSUndefined,
                 ![p].out = (IF created
                             THEN Append(@, packMessage(FALSE, OpGetVarNames,
                                                        Undef, <<>>))
                             ELSE @) \o <<MozPaired>>,
                 ![p].n = @ + 1]

\* ublocksDispatcher.broadcast of port p, inside try / catch: a message
\* that is no JSON where JSON is read, or a device that is undefined, ends
\* the function and changes nothing
MozBroadcast(p, message) ==
    /\ links[p].open = "open"
    /\ links[ThisPort].n + links[ThisPort + 1].n < MaxMoz
    /\ LET l == links[p]
           heard == [links EXCEPT ![p].n = @ + 1]
       IN  IF StartsWith(message, SubSeq(MozTexts.pair, 1, 8))
           THEN /\ links' = [heard EXCEPT
                               ![p].name = JSStr(SliceFrom(message, 9)),
                               ![p].responds = TRUE]
                /\ UNCHANGED <<devices, notified>>
           ELSE IF StartsWith(message, SubSeq(MozTexts.changed, 1, 21))
           THEN LET json == MozJSON(SliceFrom(message, 21))
                    known == /\ json.ok
                             /\ l.device # JSUndefined
                             /\ json.name \in DOMAIN l.device.values
                IN  /\ links' = IF known
                                THEN [heard EXCEPT
                                        ![p].device.values[json.name] =
                                            json.value]
                                ELSE heard
                    /\ notified' = IF known
                                   THEN Append(notified,
                                               PropertyNote(json.name,
                                                            json.value))
                                   ELSE notified
                    /\ UNCHANGED devices
           ELSE IF StartsWith(message, SubSeq(MozTexts.property, 1, 13))
           THEN LET json == MozJSON(SliceFrom(message, 13))
                IN  /\ links' = IF json.ok
                                THEN [heard EXCEPT
                                        ![p].declared = @ \cup {json.name}]
                                ELSE heard
                    /\ UNCHANGED <<devices, notified>>
           ELSE IF StartsWith(message, MozTexts.done)
           THEN MozDone(p)
           ELSE links' = heard /\ UNCHANGED <<devices, notified>>
    /\ UNCHANGED <<variant, radioPackets, idleVars>>

NextMozPair ==
    \/ \E p \in Ports : MozOpen(p)
    \/ \E p \in Ports : MozTimeout(p)
    \/ \E p \in Ports :
          \E message \in {MozTexts.pair, MozTexts.property, MozTexts.done,
                          MozTexts.changed} : MozBroadcast(p, message)

SpecMozPair == InitMozPair /\ [][NextMozPair]_vars

----------------------------------------------------------------------------
(* Claims about the framers, checked under SpecFramer, SpecSteps, SpecProto *)

\* a frame as the wire format defines it
ValidFrame(f) ==
    \/ Len(f) = 3 /\ f[1] = ShortMarker
    \/ /\ Len(f) >= 6
       /\ f[1] = LongMarker
       /\ Len(f) = 5 + dataSizeOf(f)
       /\ f[Len(f)] = Terminator

AllValid == \A i \in 1..Len(frames) : ValidFrame(frames[i])

IsSuffix(x, y) ==
    Len(x) <= Len(y) /\ x = SubSeq(y, Len(y) - Len(x) + 1, Len(y))

\* the frame a buffer begins with, as it is dispatched
EntryOf(buf) == LogEntry(buf, At(buf, 1), At(buf, 2), dataSizeOf(buf))

IncompleteLong(buf) ==
    /\ buf # <<>>
    /\ buf[1] = LongMarker
    /\ Len(buf) < dataSizeOf(buf) + 5

\* the long frames of a frame sequence, as they are dispatched
RECURSIVE LongEntries(_)
LongEntries(fs) ==
    IF fs = <<>> THEN <<>>
    ELSE IF Head(fs)[1] = LongMarker
         THEN <<EntryOf(Head(fs))>> \o LongEntries(Tail(fs))
         ELSE LongEntries(Tail(fs))

\* the opcodes and object IDs of a sequence of dispatched frames
OpsOf(l) == [i \in 1..Len(l) |-> <<l[i].op, l[i].id>>]

\* the opened link that receives the whole wire as its first chunk
OneChunk ==
    processData(variant,
                [buffer |-> Wire, timeout |-> TRUE, devices |-> <<>>,
                 out |-> <<>>, notified |-> <<>>, log |-> <<>>,
                 extracted |-> 0, threw |-> FALSE, again |-> FALSE,
                 port |-> ThisPort, radioPackets |-> <<>>])

\* the buffer a data event of n bytes hands to processData
Received(n) == buffer \o SubSeq(Wire, fed + 1, fed + n)

\* the step is a data event of n bytes: no other step feeds a byte, or
\* records an empty chunk
DataStep(n) == fed' = fed + n /\ ((n = 0) => (lastEmpty' /\ ~lastEmpty))

\* C1: once every byte of a sequence of valid frames was fed, in whatever
\* chunks, the frames dispatched and the buffer left are those of feeding
\* the same bytes as one chunk.
C1_ChunkSplitInvariance ==
    (AllValid /\ open # "new" /\ fed = Len(Wire))
        => (log = OneChunk.log /\ buffer = OneChunk.buffer)

\* C3: a buffer that begins with 0xFB and is shorter than dataSize + 5 is
\* left as it is and nothing is dispatched; when a chunk completes it, the
\* frame is dispatched and its 5 + dataSize bytes leave the buffer, so that
\* no data event finds a complete frame waiting to be dispatched again.
C3_IncompleteThenOnce ==
    [][LET n == fed' - fed IN
         (DataStep(n) /\ Received(n) # <<>> /\ Received(n)[1] = LongMarker)
            => LET c == Received(n)
                   dataSize == dataSizeOf(c)
               IN  /\ (buffer # <<>>) => IncompleteLong(buffer)
                   /\ IF Len(c) < dataSize + 5
                      THEN buffer' = c /\ log' = log
                      ELSE /\ Len(log') > Len(log)
                           /\ log'[Len(log) + 1] = EntryOf(c)
                           /\ IsSuffix(buffer', SliceFrom(c, 5 + dataSize))
      ]_vars

C3_Witness ==
    /\ frames = <<LongFrame(OpVarValue, 2, <<1, 5, 0, 0, 0>>)>>
    /\ fed = Len(Wire)
    /\ lastEmpty
    /\ buffer = <<>>
    /\ Len(log) = 1

\* C4: a buffer whose first byte is neither 0xFA nor 0xFB loses exactly
\* the bytes before its first 0xFB, and the frame that begins there is
\* decoded (dispatched once when it is all that follows); a buffer without
\* 0xFB is emptied and nothing is dispatched.
C4_Resync ==
    [][LET n == fed' - fed IN
         (DataStep(n) /\ Received(n) # <<>>
                  /\ Received(n)[1] \notin {ShortMarker, LongMarker})
            => LET c == Received(n)
                   checkIndex == IndexOf(c, LongMarker)
                   rest == SliceFrom(c, checkIndex)
                   dataSize == dataSizeOf(rest)
               IN  IF checkIndex = -1
                   THEN buffer' = <<>> /\ log' = log /\ extracted' = extracted
                   ELSE IF Len(rest) < dataSize + 5
                        THEN buffer' = rest /\ log' = log
                        ELSE /\ Len(log') > Len(log)
                             /\ log'[Len(log) + 1] = EntryOf(rest)
                             /\ IsSuffix(buffer', rest)
                             /\ (Len(rest) = dataSize + 5)
                                    => Len(log') = Len(log) + 1
      ]_vars

C4_Witness ==
    /\ frames = <<<<0, 0>>, LongFrame(OpVarName, 2, <<108>>)>>
    /\ fed = Len(Wire)
    /\ buffer = <<>>
    /\ Len(log) = 1
    /\ log[1].op = OpVarName
    /\ log[1].id = 2

\* C5: a first chunk that holds k complete frames back to back makes k
\* extractions that empty the buffer, and dispatches the long frames among
\* them in wire order.
C5_BackToBack ==
    [][(/\ AllValid
        /\ frames # <<>>
        /\ fed = 0
        /\ buffer = <<>>
        /\ log = <<>>
        /\ DataStep(Len(Wire)))
          => /\ extracted' = extracted + Len(frames)
             /\ buffer' = <<>>
             /\ OpsOf(log') = OpsOf(LongEntries(frames))
      ]_vars

\* C6: every invocation of processData that calls itself has shortened the
\* buffer, and the invocations a data event makes are at most one more than
\* the bytes that arrived.
C6_StepShortens ==
    /\ [][(pc = "run" /\ pc' = "run") => Len(buffer') < Len(buffer)]_vars
    /\ [](depth <= MaxStepBytes + 1)

C6_Witness ==
    /\ pc = "idle"
    /\ depth >= 3
    /\ fed = MaxStepBytes

\* C7: an empty chunk that finds the buffer empty, or holding an
\* incomplete long frame, dispatches nothing and leaves the buffer, the
\* probe timeout, the registry and the bindings as they were.
C7_EmptyChunk ==
    [][(DataStep(0) /\ (buffer = <<>> \/ IncompleteLong(buffer)))
          => UNCHANGED <<buffer, timeout, devices, out, notified, log,
                         extracted>>
      ]_vars

C7_Witness ==
    /\ lastEmpty
    /\ IncompleteLong(buffer)
    /\ fed > 0
    /\ ~threw

\* the step dispatches exactly one long frame: the last entry of log'
Dispatched == Len(log') = Len(log) + 1 /\ SubSeq(log', 1, Len(log)) = log

\* a buffer that begins with a complete frame
CompleteAtHead(buf) ==
    /\ buf # <<>>
    /\ \/ buf[1] = ShortMarker /\ Len(buf) >= 3
       \/ buf[1] = LongMarker /\ Len(buf) >= 5
                              /\ Len(buf) >= 5 + dataSizeOf(buf)

\* the frames are valid, their opcodes are not 0 and have a descriptor
AllDescribed ==
    \A i \in 1..Len(frames) :
        ValidFrame(frames[i]) /\ frames[i][2] \in ProtoOpCodes

\* C37: once every byte of a sequence of valid frames with described
\* opcodes was handed to processRawData, in whatever chunks, the calls of
\* the dispatcher are those of handing over the same bytes as one chunk,
\* and a chunk that leaves a frame incomplete leaves its bytes in
\* messageBuffer.
C37_ProtoSplitInvariance ==
    /\ [](AllDescribed /\ fed = Len(Wire) => log = OneChunk.log)
    /\ [][(AllDescribed /\ ~threw' /\ ~CompleteAtHead(Received(fed' - fed)))
             => (log' = log /\ buffer' = Received(fed' - fed))]_vars

\* two frames arrived, in one chunk or in several, and both were dispatched
C37_Witness ==
    /\ AllDescribed
    /\ Len(frames) = 2
    /\ fed = Len(Wire)
    /\ Len(log) = 2
    /\ buffer = <<>>

\* C38: when processRawData has returned, messageBuffer does not begin with
\* a complete frame, whatever the opcode and the data size of the frame.
C38_ProtoProgress == ~CompleteAtHead(buffer)

\* C32: when processData has returned, the buffer is empty or begins with
\* 0xFB and is an incomplete long frame; it keeps no complete frame, no 0xFA
\* and no garbage at its head.
C32_BufferAfterData ==
    \/ buffer = <<>>
    \/ /\ buffer[1] = LongMarker
       /\ Len(buffer) < 5 \/ Len(buffer) < dataSizeOf(buffer) + 5

\* C21: a variableValue frame whose objectId is not 0xFF and is the variable
\* ID of no property of the device at the port changes no device, property
\* or flag, writes nothing, notifies nothing, and is taken off the buffer.
C21_UnknownIDIgnored ==
    [][(/\ Dispatched
        /\ log'[Len(log')].op = OpVarValue
        /\ log'[Len(log')].id # DescriptionID
        /\ \/ deviceAtPort(devices) = 0
           \/ \A i \in PropertyIndexes :
                  Props[i].varID # log'[Len(log')].id)
          => /\ devices' = devices
             /\ out' = out
             /\ notified' = notified
             /\ extracted' > extracted
      ]_vars

\* a device exists at the port, none of its properties has the variable ID
\* of the value frame dispatched last, and the buffer is empty again
C21_Witness ==
    /\ deviceAtPort(devices) # 0
    /\ log # <<>>
    /\ log[Len(log)].op = OpVarValue
    /\ log[Len(log)].id = 2
    /\ \A i \in PropertyIndexes : Props[i].varID # 2
    /\ buffer = <<>>
    /\ fed = Len(Wire)

\* C22: while the probe timeout is pending, the data event that completes
\* the first frame the board sends, a valid long or short frame, cancels it.
C22_FirstFrameCancels ==
    [][(/\ frames # <<>>
        /\ ValidFrame(Head(frames))
        /\ open = "open"
        /\ timeout
        /\ fed < Len(Head(frames))
        /\ fed' >= Len(Head(frames)))
          => ~timeout'
      ]_vars

----------------------------------------------------------------------------
(* Claims about the repair of descriptions, checked under SpecRepair *)

EndsWith(text, c) == text # <<>> /\ text[Len(text)] = c

\* the depth of braces behind every character of a text
RECURSIVE Depths(_, _)
Depths(text, d) ==
    IF text = <<>> THEN <<>>
    ELSE LET e == CASE Head(text) = 123 -> d + 1
                    [] Head(text) = 125 -> d - 1
                    [] OTHER -> d
         IN  <<e>> \o Depths(Tail(text), e)

\* the braces of the text are those of one object, closed by its last
\* character, and no comma stands before a closing brace
ClosedObject(text) ==
    /\ text # <<>>
    /\ text[1] = 123
    /\ LET ds == Depths(text, 0)
       IN  /\ ds[Len(text)] = 0
           /\ \A i \in 1..(Len(text) - 1) : ds[i] > 0
    /\ \A i \in 1..(Len(text) - 1) : ~(text[i] = 44 /\ text[i + 1] = 125)

\* a description cut behind the comma that follows a complete property
CutAfterProperty(text) ==
    /\ text = SubSeq(DescriptionText2, 1, Len(text))
    /\ Len(text) > 27
    /\ EndsWith(text, 44)
    /\ text[Len(text) - 1] = 125

\* C30 (as the source has it): a text that ends with ',' has the comma
\* replaced by '}}'; otherwise a text that ends with '{' has '}}' appended;
\* any other text is left as it is.  The repaired text of a description cut
\* behind the comma of a complete property is well-formed, and parses.
C30_Repair ==
    (stage = "repaired") =>
        LET text == arg.val.v
        IN  /\ EndsWith(text, 44)
                => frame = SubSeq(text, 1, Len(text) - 1) \o <<125, 125>>
            /\ EndsWith(text, 123) => frame = text \o <<125, 125>>
            /\ (~EndsWith(text, 44) /\ ~EndsWith(text, 123)) => frame = text
            /\ CutAfterProperty(text)
                => (ClosedObject(frame) /\ JSONparse(frame).ok)

\* C30 as stated: '}}' is appended to a text that ends with ','
C30_Appended ==
    (stage = "repaired" /\ EndsWith(arg.val.v, 44))
        => frame = arg.val.v \o <<125, 125>>

\* the description cut behind the comma of its first property was repaired
C30_Witness ==
    /\ stage = "repaired"
    /\ CutAfterProperty(arg.val.v)
    /\ frame = DescriptionText

----------------------------------------------------------------------------
(* Claims about the adapter with several ports, checked under SpecLinks *)

\* the indexes in devices of the devices attached directly to port p
DirectAt(p) ==
    {d \in 1..Len(devices) :
        devices[d].port = p /\ devices[d].radio = JSUndefined}

\* C24: a description that declares no property never results in a device:
\* no device of the registry is without properties, and the port on which
\* such a description arrived whole is closed.
C24_NoEmptyDevice ==
    /\ \A d \in 1..Len(devices) : devices[d].props # <<>>
    /\ \A p \in Ports :
          (links[p].heard # <<>> /\ links[p].heard[1] = 3)
              => links[p].open = "closed"

\* nothing of a frame is left on port p: the buffer is empty or holds the
\* 0xFE that follows a frame
Consumed(p) == links[p].buffer \in {<<>>, <<Terminator>>}

\* C31: a description or a radio text that is no JSON does not end the
\* session: the data event that brings it creates no device, throws nothing
\* and leaves nothing of the frame in the buffer, so that the frames behind
\* it are dispatched.
C31_BadJSONRecovered ==
    [][\A p \in Ports : \A k \in {8, 9} :
          (Consumed(p) /\ links'[p].heard = Append(links[p].heard, k))
              => /\ devices' = devices
                 /\ ~links'[p].threw
                 /\ Consumed(p)']_vars

\* C33: a complete long frame is taken off the buffer whether its handler
\* succeeds or not: after every data event that brought whole frames nothing
\* of them is at the head of the buffer.
C33_FrameRemoved == \A p \in Ports : Consumed(p)

\* C35: the broadcast 'a' that arrives on a port whose device, attached
\* directly, has the event 'a' makes the device notify that event once; a
\* broadcast on a port whose device has no such event notifies nothing.
C35_EventNotified ==
    [][\A p \in Ports :
          (Consumed(p) /\ links'[p].heard = Append(links[p].heard, 12))
              => IF \E d \in DirectAt(p) : <<97>> \in devices[d].events
                 THEN notified' = Append(notified, EventNote(<<97>>))
                 ELSE notified' = notified]_vars

\* C34: a port that was opened for probing is closed in the end or has a
\* device registered for it, whatever frames arrive on it.
C34_ProbeEnds ==
    \A p \in Ports :
        (links[p].open = "open")
            ~> (\/ links[p].open = "closed"
                \/ \E d \in 1..Len(devices) : devices[d].port = p)

\* C25: when a port reports that the board was unplugged, every device
\* bound to the port, attached directly or reached by radio, is reported to
\* the host as removed, and no device of the registry is bound to the port
\* afterwards (the pollers of a device end with it).
C25_Disconnection ==
    [][\A p \in Ports :
          Unplug(p)
              => /\ \A d \in 1..Len(devices) :
                       devices[d].port = p
                           => \E n \in (Len(notified) + 1)..Len(notified') :
                                 notified'[n] = RemovedNote(devices[d].id)
                 /\ \A d \in 1..Len(devices') : devices'[d].port # p]_vars

\* C26: once a port is closed its discovery timeout is no longer pending, no
\* device with a running poller is bound to it, and no timer has called it
\* after the close.
C26_TimersCancelled ==
    \A p \in Ports :
        links[p].open = "closed"
            => /\ ~links[p].timeout
               /\ ~links[p].late
               /\ \A d \in 1..Len(devices) :
                     devices[d].port = p
                         => \A i \in 1..Len(devices[d].props) :
                               ~devices[d].props[i].poller

\* C29: the bytes that arrive on a port change nothing of another port, and
\* what a data event does depends on the port's own frames and the registry
\* only: a radio device is registered at a port when the packets of its
\* description arrived on that port.
C29_LinksIndependent ==
    [][\A p \in Ports :
          links'[p].heard # links[p].heard
              => /\ \A q \in Ports \ {p} : links'[q] = links[q]
                 /\ \A d \in 1..Len(devices') :
                       (d > Len(devices) /\ devices'[d].radio # JSUndefined)
                           => /\ devices'[d].port = p
                              /\ \A k \in {6, 7} :
                                    \E n \in 1..Len(links'[p].heard) :
                                       links'[p].heard[n] = k]_vars

\* the title of the description that the k-th frame of LinkCatalogue carries
TitleOf(k) == IF k = 2 THEN <<85>> ELSE <<84>>

C28_OneDirectDevice ==
    \A p \in Ports : Cardinality(DirectAt(p)) <= 1

----------------------------------------------------------------------------
(* Claims about the 'moz-pair' handshake, checked under SpecMozPair *)

\* C39: 'moz-paired' is written on a port, whose board has given its name,
\* only when 'moz-done' has created and registered a device for the port,
\* and a 'moz-property-changed' changes the device of its own port or
\* nothing.
C39_PairedAfterDevice ==
    [][\A p \in Ports :
          /\ (links[p].name # JSUndefined /\ links'[p].out # links[p].out)
                => /\ links'[p].device # JSUndefined
                   /\ Len(devices') = Len(devices) + 1
                   /\ devices'[Len(devices')] = links'[p].device.name
          /\ (links'[p].n # links[p].n /\ devices' = devices)
                => \A q \in Ports \ {p} : links'[q] = links[q]]_vars

----------------------------------------------------------------------------
(* Claims about the synchronisation, checked under SpecSync *)

\* the bytes of the payload of a long frame
PayloadOf(f) == SubSeq(f, 6, 5 + dataSizeOf(f))

StripNul(name) == SelectSeq(name, LAMBDA c : c # 0)

\* the properties of the device at the port after the step
PropsAfter == devices'[deviceAtPort(devices)].props

\* C13: a variableName frame that carries the name of a property of the
\* link's device stores its objectId as the variable ID of that property
\* and writes [0xFA, 0x07, objectId], inside the data event of the frame.
C13_NameBinds ==
    [][(DeliverStep /\ Head(frames)[2] = OpVarName)
          => \A i \in PropertyIndexes :
                 (Props[i].name = PayloadOf(Head(frames)))
                    => /\ PropsAfter[i].varID = Head(frames)[3]
                       /\ out' = Append(out, <<ShortMarker, OpGetVarValue,
                                               Head(frames)[3]>>)
      ]_vars

C13_Witness ==
    /\ PropertyIndexes # {}
    /\ Props[1].varID = board.ids[1]
    /\ log[Len(log)].op = OpVarName
    /\ out[Len(out)] = <<ShortMarker, OpGetVarValue, board.ids[1]>>
    /\ board.read = Len(out) - 1

\* C15: in microblocks-adapter.js a variableValue frame for the variable of
\* a property is applied to the property and notified to the host, with
\* nothing written to the link, when requestingChange is clear; when it is
\* set, the frame only clears it: value and host are left as they were.
C15_ValueFrame ==
    [][(variant = "ma" /\ DeliverStep /\ Head(frames)[2] = OpVarValue)
          => \A i \in PropertyIndexes :
                 (Props[i].varID = Head(frames)[3])
                    => LET f == Head(frames)
                           varValue == getPayload(f, dataSizeOf(f))
                       IN  /\ out' = out
                           /\ ~PropsAfter[i].requestingChange
                           /\ IF Props[i].requestingChange
                              THEN /\ PropsAfter[i].value = Props[i].value
                                   /\ notified' = notified
                              ELSE /\ PropsAfter[i].value = varValue
                                   /\ notified' =
                                          Append(notified,
                                                 PropertyNote(Props[i].name,
                                                              varValue))
      ]_vars

\* a frame found the flag set with no interval to clear it, and cleared it
C15_Witness ==
    /\ variant = "ma"
    /\ PropertyIndexes # {}
    /\ Props[1].varID = 0
    /\ Props[1].value = JSInt(HostValue)
    /\ ~Props[1].requestingChange
    /\ ~Props[1].echoTimer

\* C16: a set by the host of a property whose variable ID is known, whatever
\* the ID, marks requestingChange and writes exactly one setVar message
\* addressed to that ID.
C16_HostSetWrites ==
    [][\A i \in PropertyIndexes :
          (HostSet(i) /\ Props[i].varID # Null)
             => /\ PropsAfter[i].requestingChange
                /\ Len(out') = Len(out) + 1
                /\ SubSeq(out', 1, Len(out)) = out
                /\ SubSeq(out'[Len(out')], 1, 3)
                       = <<LongMarker, OpSetVar, Props[i].varID>>
      ]_vars

\* C17: a set by the host of a property whose variable ID is not known
\* writes nothing and leaves requestingChange clear.
C17_UnknownIDDropped ==
    [][\A i \in PropertyIndexes :
          (HostSet(i) /\ Props[i].varID = Null)
             => /\ out' = out
                /\ ~PropsAfter[i].requestingChange
      ]_vars

\* C18: a tick of the poller of a property writes [0xFA, 0x07, id] when the
\* variable ID is known, whatever the ID, and requestingChange is false; it
\* writes nothing when requestingChange is true or the ID is not known.
C18_Polling ==
    [][\A i \in PropertyIndexes :
          PollTick(i)
             => IF Props[i].varID # Null /\ ~Props[i].requestingChange
                THEN out' = Append(out, <<ShortMarker, OpGetVarValue,
                                          Props[i].varID>>)
                ELSE out' = out
      ]_vars

\* C36: with the port open, the board answering every request and the host
\* no longer writing, every property whose variable ID is known has in the
\* end, and keeps, the value that the variable has on the board.
C36_Convergence ==
    <>[](\A i \in PropertyIndexes :
            Props[i].varID # Null => Props[i].value = JSInt(board.value[i]))

\* C19: whenever requestingChange of a property is true it becomes false
\* again, whether or not a value frame arrives.
C19_FlagTransient ==
    (PropertyIndexes # {} /\ Props[1].requestingChange)
        ~> (PropertyIndexes # {} /\ ~Props[1].requestingChange)

\* C20: the write of property i by the host, its echo and its echo-clear
\* timer leave the other property j of the device as it was; a value frame
\* for j is applied, and j is polled, according to j's own flag alone.
C20_Independent ==
    [][\A i, j \in PropertyIndexes :
          (i # j) =>
             /\ ( \/ HostSet(i)
                  \/ EchoClearTick(i)
                  \/ PollTick(i)
                  \/ /\ DeliverStep
                     /\ Head(frames)[2] = OpVarValue
                     /\ Head(frames)[3] = Props[i].varID )
                => /\ PropsAfter[j].requestingChange
                        = Props[j].requestingChange
                   /\ PropsAfter[j].value = Props[j].value
                   /\ PropsAfter[j].poller = Props[j].poller
                   /\ PropsAfter[j].varID = Props[j].varID
             /\ ( /\ DeliverStep
                  /\ Head(frames)[2] = OpVarValue
                  /\ Head(frames)[3] = Props[j].varID
                  /\ ~Props[j].requestingChange )
                => PropsAfter[j].value
                      = getPayload(Head(frames), dataSizeOf(Head(frames)))
             /\ PollTick(j)
                => ((out' # out) <=> /\ Props[j].varID # Null
                                     /\ Props[j].varID # 0
                                     /\ ~Props[j].requestingChange)
      ]_vars

\* the write of the first property is in flight, its flag set, and the last
\* thing the host was told is a value the board sent for the second
C20_Witness ==
    /\ PropertyIndexes = {1, 2}
    /\ HostWrote(1)
    /\ Props[1].requestingChange
    /\ Props[1].echoTimer
    /\ Props[2].value \notin {JSUndefined, JSInt(HostValue)}
    /\ notified[Len(notified)] = PropertyNote(Props[2].name, Props[2].value)

\* C14: a variableName frame whose payload is the name of a property with
\* NUL bytes in it stores its objectId as the variable ID of that property.
C14_NulStripped ==
    [][(DeliverStep /\ Head(frames)[2] = OpVarName)
          => \A i \in PropertyIndexes :
                 (Props[i].name = StripNul(PayloadOf(Head(frames))))
                    => PropsAfter[i].varID = Head(frames)[3]
      ]_vars

\* how often the host was notified of the value x of the property
Observed(x) ==
    Cardinality({i \in 1..Len(notified) :
                    /\ notified[i].k = "property"
                    /\ notified[i].v = JSInt(x)})

\* C2: the host observes the value it wrote once, and a value the board
\* gave to the variable once, however many poll responses carry it (the
\* values written and given are all different).
C2_EchoSuppression ==
    variant = "ma" =>
    \A x \in {0, HostValue} \cup {RemoteValue(k) : k \in 0..MaxChanges} :
        Observed(x) <= 1

----------------------------------------------------------------------------
(* Claims about the codec, checked under SpecCodec *)

\* C8: the frame packSetVariableMessage(id, v, type) builds decodes, with
\* getPayload and getPayloadType, to exactly v and to the same type tag, for
\* Integer, Boolean and String values.
C8_RoundTrip ==
    (stage = "setvar" /\ isDecoded) =>
        (decoded = arg.val /\ decodedType = arg.type)

\* a long frame [0xFB, opcode, objectId, sizeLow, sizeHigh, ...data, 0xFE]
\* whose size is len(data) + 1, so that 5 + size is the length written
WellShapedLong(f, opcode) ==
    /\ Len(f) >= 6
    /\ f[1] = LongMarker
    /\ f[2] = opcode
    /\ f[3] \in 0..255
    /\ f[4] + 256 * f[5] = Len(f) - 5
    /\ f[Len(f)] = Terminator

\* C9: every long frame the adapter builds for writing (set-variable,
\* broadcast, the probe's request) is 0xFB, opcode, objectId, the size in
\* little endian, the data and 0xFE, the size being len(data) + 1.
C9_WrittenFrameShape ==
    /\ (stage = "setvar" /\ frame # NoFrame) => WellShapedLong(frame, OpSetVar)
    /\ stage = "broadcast" => WellShapedLong(frame, OpBroadcast)
    /\ stage = "probe" => WellShapedLong(frame, OpGetVarValue)

\* C10: for a complete long frame at offset 0, a byte 0..3 at index 5 is the
\* type tag and the value is decoded from index 6 on (tag 1: the signed
\* 32-bit little-endian integer of bytes 6..9, tag 2: a string, tag 3: a
\* boolean); any other byte makes the payload the raw string of the bytes
\* in [5, 5 + dataSize), the byte at index 5 included.
C10_PayloadDecoding ==
    (stage = "inbound" /\ isDecoded) =>
        LET tag == At(frame, 5)
            size == frame[4] + 256 * frame[5]
        IN  IF tag \in 0..3
            THEN /\ decodedType = tag
                 /\ (tag = 1 /\ Len(frame) >= 10) =>
                        decoded =
                            JSInt(frame[7] + 256 * frame[8] + 65536 * frame[9]
                                  + 16777216 * (IF frame[10] < 128
                                                THEN frame[10]
                                                ELSE frame[10] - 256))
                 /\ tag = 2 => decoded = JSStr(SubSeq(frame, 7, 5 + size))
                 /\ tag = 3 =>
                        /\ decoded.t = "bool"
                        /\ At(frame, 6) = 1 => decoded = JSBool(TRUE)
                        /\ At(frame, 6) = 0 => decoded = JSBool(FALSE)
            ELSE /\ decodedType = -1
                 /\ decoded = JSStr(SubSeq(frame, 6, 5 + size))

\* a tag-1 frame carrying a negative integer has been decoded
C10_Witness ==
    /\ stage = "inbound"
    /\ isDecoded
    /\ At(frame, 5) = 1
    /\ Len(frame) >= 10
    /\ decoded.t = "int"
    /\ decoded.v[1] < 0

\* the frame at the head of the buffer, without what follows it
FrameAlone == SubSeq(frame, 1, 5 + dataSizeOf(frame))

\* C11: what getPayloadType and getPayload return for a complete long frame
\* is what they return for its first 5 + dataSize bytes alone: no byte of
\* the frame that follows it in the buffer changes the result.
C11_NoReadPastLength ==
    (stage = "followed" /\ isDecoded) =>
        /\ decodedType = getPayloadType(FrameAlone)
        /\ decoded = getPayload(FrameAlone, dataSizeOf(frame))

\* C12: a tag-3 payload with a value byte decodes to false for the byte 0
\* and to true for every other byte, in getPayload and in processReturnValue.
C12_BooleanNonzero ==
    (stage = "inbound" /\ isDecoded /\ At(frame, 5) = 3 /\ Len(frame) = 7) =>
        /\ decoded = JSBool(frame[7] # 0)
        /\ processReturnValue(SliceFrom(frame, 5)) = JSBool(frame[7] # 0)

====
